---- MODULE Spec2Model ----
(***************************************************************************)
(* A model of alterx: the Mutator (New, Execute, ExecuteWithWriter), the   *)
(* ClusterBomb combination generator and the helpers they call.            *)
(*                                                                         *)
(* Strings are sequences of one-character strings, so that length, prefix, *)
(* suffix, split and substitution are computed and not assumed:            *)
(* "a.com" is <<"a", ".", "c", "o", "m">>.                                 *)
(***************************************************************************)
EXTENDS Integers, Sequences, FiniteSets, TLC

(***************************************************************************)
(* Bounds of the model.                                                    *)
(***************************************************************************)
\* longest value sequence of one ClusterBomb key
MaxVals == 2
\* largest index k of the callback invocation that answers false
MaxStop == 4
\* longest list of input domains
MaxDomains == 2
\* longest list of patterns
MaxPatterns == 2
\* largest Options.Limit
MaxLimit == 2

\* the labels of a hostname given to NewInput
MaxLabels == 5

\* the calls of ExecuteWithWriter and DryRun made on one Mutator
MaxCalls == 2

\* the calls of GetMap made on one Input
MaxGetMap == 2

\* the labels of a hostname that is given to NewInput in every way of writing
MaxWritten == 4

(***************************************************************************)
(* Go's strings package, on sequences of characters.                       *)
(***************************************************************************)
HasPrefix(s, p) == Len(p) <= Len(s) /\ SubSeq(s, 1, Len(p)) = p

HasSuffix(s, p) == Len(p) <= Len(s) /\ SubSeq(s, Len(s) - Len(p) + 1, Len(s)) = p

\* the least element of a non-empty set of integers
Min(S) == CHOOSE i \in S : \A j \in S : i <= j

\* strings.Index(s, pat), 1-based, searching from position from; 0 when absent
IndexFrom(s, pat, from) ==
    LET C == {i \in from..(Len(s) - Len(pat) + 1) : SubSeq(s, i, i + Len(pat) - 1) = pat}
    IN  IF C = {} THEN 0 ELSE Min(C)

Contains(s, pat) == IndexFrom(s, pat, 1) # 0

TrimPrefix(s, p) == IF HasPrefix(s, p) THEN SubSeq(s, Len(p) + 1, Len(s)) ELSE s

TrimSuffix(s, p) == IF HasSuffix(s, p) THEN SubSeq(s, 1, Len(s) - Len(p)) ELSE s

\* before of strings.Cut(s, sep): the text before the first sep, or all of s
CutBefore(s, sep) ==
    IF IndexFrom(s, sep, 1) = 0 THEN s ELSE SubSeq(s, 1, IndexFrom(s, sep, 1) - 1)

RECURSIVE Split(_, _)
\* strings.Split(s, sep) for a non-empty sep
Split(s, sep) ==
    LET i == IndexFrom(s, sep, 1)
    IN  IF i = 0 THEN <<s>>
        ELSE <<SubSeq(s, 1, i - 1)>> \o Split(SubSeq(s, i + Len(sep), Len(s)), sep)

RECURSIVE Join(_, _)
\* strings.Join(parts, sep)
Join(parts, sep) ==
    IF parts = <<>> THEN <<>>
    ELSE IF Len(parts) = 1 THEN parts[1]
    ELSE parts[1] \o sep \o Join(Tail(parts), sep)

\* the elements of a sequence
Range(s) == {s[i] : i \in DOMAIN s}

RECURSIVE Dedupe(_)
\* sliceutil.Dedupe: the first occurrence of each element, in order
Dedupe(s) ==
    IF s = <<>> THEN <<>>
    ELSE LET front == Dedupe(SubSeq(s, 1, Len(s) - 1))
         IN  IF s[Len(s)] \in Range(front) THEN front ELSE Append(front, s[Len(s)])

\* all permutations of a finite set, as sequences without repetition
Perms(S) == {f \in [1..Cardinality(S) -> S] : \A i, j \in 1..Cardinality(S) : f[i] = f[j] => i = j}

(***************************************************************************)
(* replacer.go and util.go: the placeholder engine.                        *)
(***************************************************************************)
Letters == {"a", "b", "c", "d", "e", "f", "g", "h", "i", "j", "k", "l", "m",
            "n", "o", "p", "q", "r", "s", "t", "u", "v", "w", "x", "y", "z"}

Digits == {"0", "1", "2", "3", "4", "5", "6", "7", "8", "9"}

ParenthesisOpen == <<"{", "{">>

ParenthesisClose == <<"}", "}">>

RECURSIVE Replace(_, _)
\* Replace(template, values): every {{name}} whose name is a key of values is
\* replaced by its value, any other placeholder is written back as it stands,
\* and an opening marker without a closing one ends the scan
Replace(template, values) ==
    LET a == IndexFrom(template, ParenthesisOpen, 1)
        b == IndexFrom(template, ParenthesisClose, a + 2)
        tag == SubSeq(template, a + 2, b - 1)
    IN  IF a = 0 \/ b = 0 THEN template
        ELSE SubSeq(template, 1, a - 1)
             \o (IF tag \in DOMAIN values THEN values[tag]
                 ELSE ParenthesisOpen \o tag \o ParenthesisClose)
             \o Replace(SubSeq(template, b + 2, Len(template)), values)

\* fasttemplate.NewTemplate: an opening marker with no closing marker after it
\* is a syntax error
RECURSIVE TemplateValid(_)
TemplateValid(template) ==
    LET a == IndexFrom(template, ParenthesisOpen, 1)
        b == IndexFrom(template, ParenthesisClose, a + 2)
    IN  IF a = 0 THEN TRUE
        ELSE IF b = 0 THEN FALSE
        ELSE TemplateValid(SubSeq(template, b + 2, Len(template)))

\* the length of the run of letters and digits of s that starts at position i
RECURSIVE AlnumRun(_, _)
AlnumRun(s, i) ==
    IF i <= Len(s) /\ s[i] \in Letters \cup Digits THEN 1 + AlnumRun(s, i + 1) ELSE 0

\* the length of the match of \{\{([a-zA-Z0-9]+)\}\} at position i of s, or 0
VarMatchLen(s, i) ==
    LET n == AlnumRun(s, i + 2)
    IN  IF /\ HasPrefix(SubSeq(s, i, Len(s)), ParenthesisOpen)
           /\ n > 0
           /\ HasPrefix(SubSeq(s, i + 2 + n, Len(s)), ParenthesisClose)
        THEN n + 4 ELSE 0

RECURSIVE AllVarsFrom(_, _)
AllVarsFrom(s, i) ==
    IF i > Len(s) THEN <<>>
    ELSE IF VarMatchLen(s, i) > 0
         THEN <<SubSeq(s, i + 2, i + VarMatchLen(s, i) - 3)>>
              \o AllVarsFrom(s, i + VarMatchLen(s, i))
         ELSE AllVarsFrom(s, i + 1)

\* getAllVars(data): the names of the well-formed placeholders, left to right
getAllVars(data) == AllVarsFrom(data, 1)

\* getSampleMap(inputVars, payloadVars): the input's variables plus one
\* sample value for every non-empty key that has at least one payload
getSampleMap(inputVars, payloadVars) ==
    [k \in DOMAIN inputVars \cup {q \in DOMAIN payloadVars : q # <<>> /\ payloadVars[q] # <<>>} |->
        IF k \in DOMAIN payloadVars /\ k # <<>> /\ payloadVars[k] # <<>>
        THEN <<"t", "e", "m", "p">> ELSE inputVars[k]]

\* checkMissing(template, data) == nil
checkMissing(template, data) == getAllVars(Replace(template, data)) = <<>>

(***************************************************************************)
(* inputs.go: Input, GetMap and NewInput. The public suffix list and the   *)
(* URL parser are libraries; the model keeps three rules of the list and   *)
(* the parser's stripping of scheme, path and port.                        *)
(***************************************************************************)
Dot == <<".">>

Star == <<"*">>

PublicSuffixRules == {<<"c", "o", "m">>, <<"u", "k">>, <<"c", "o", ".", "u", "k">>}

\* the longest element of a non-empty set of strings whose lengths differ
Longest(S) == CHOOSE r \in S : \A q \in S : Len(q) <= Len(r)

\* publicsuffix.PublicSuffix: the longest matching rule, or the last label
PublicSuffix(domain) ==
    LET matching == {r \in PublicSuffixRules : domain = r \/ HasSuffix(domain, Dot \o r)}
        labels == Split(domain, Dot)
    IN  IF matching # {} THEN Longest(matching) ELSE labels[Len(labels)]

\* publicsuffix.EffectiveTLDPlusOne: [ok, domain]
EffectiveTLDPlusOne(domain) ==
    LET suffix == PublicSuffix(domain)
        i == Len(domain) - Len(suffix)
        before == Split(SubSeq(domain, 1, i - 1), Dot)
    IN  IF HasPrefix(domain, Dot) \/ HasSuffix(domain, Dot) \/ Contains(domain, Dot \o Dot)
        THEN [ok |-> FALSE, domain |-> <<>>]
        ELSE IF Len(domain) <= Len(suffix) \/ domain[i] # "."
        THEN [ok |-> FALSE, domain |-> <<>>]
        ELSE [ok |-> TRUE, domain |-> before[Len(before)] \o Dot \o suffix]

\* a bug: the port is left on the hostname
Hostname_KeepsPort(inputURL) ==
    LET scheme == IndexFrom(inputURL, <<":", "/", "/">>, 1)
        rest == IF scheme = 0 THEN inputURL ELSE SubSeq(inputURL, scheme + 3, Len(inputURL))
    IN  CutBefore(rest, <<"/">>)

\* URL.Hostname() of urlutil.Parse(inputURL): the text after a scheme marker,
\* up to the first path separator, without a port
Hostname(inputURL) ==
    LET scheme == IndexFrom(inputURL, <<":", "/", "/">>, 1)
        rest == IF scheme = 0 THEN inputURL ELSE SubSeq(inputURL, scheme + 3, Len(inputURL))
    IN  CutBefore(CutBefore(rest, <<"/">>), <<":">>)

NoInput ==
    [TLD |-> <<>>, ETLD |-> <<>>, SLD |-> <<>>, Root |-> <<>>, Sub |-> <<>>,
     Suffix |-> <<>>, MultiLevel |-> <<>>]

\* a bug: a public suffix without a registered name is taken as its own root
RootOf_AcceptSuffix(hostname) ==
    IF EffectiveTLDPlusOne(hostname).ok THEN EffectiveTLDPlusOne(hostname)
    ELSE [ok |-> TRUE, domain |-> hostname]

\* rootDomain, err := publicsuffix.EffectiveTLDPlusOne(hostname)
RootOf(hostname) == EffectiveTLDPlusOne(hostname)

\* a bug: the leftmost label is not trimmed off
SuffixOf_NoTrim(hostname, sub) == hostname

\* ivar.Suffix: everything except the leftmost subdomain
SuffixOf(hostname, sub) == IF sub # <<>> THEN TrimPrefix(hostname, sub \o Dot) ELSE hostname

\* the Input built from a hostname that passed the checks of NewInput
Decompose(hostname, rootDomain) ==
    LET suffix == PublicSuffix(hostname)
        multi == Contains(suffix, Dot)
        etld == IF multi THEN suffix ELSE <<>>
        parts == Split(suffix, Dot)
        tld == IF multi THEN parts[Len(parts)] ELSE suffix
        sld == IF etld # <<>> THEN TrimSuffix(rootDomain, Dot \o etld)
               ELSE TrimSuffix(rootDomain, Dot \o tld)
        subdomainPrefix == TrimSuffix(TrimSuffix(hostname, rootDomain), Dot)
        prefixes == Split(subdomainPrefix, Dot)
        sub == IF Contains(subdomainPrefix, Dot) THEN prefixes[1] ELSE subdomainPrefix
    IN  [TLD |-> tld, ETLD |-> etld, SLD |-> sld, Root |-> rootDomain, Sub |-> sub,
         Suffix |-> SuffixOf(hostname, sub),
         MultiLevel |-> IF Contains(subdomainPrefix, Dot) THEN Tail(prefixes) ELSE <<>>]

\* a bug: the leading wildcard is left in place
StripWildcard_Keep(host0) == host0

\* if strings.Contains(hostname, "*") && strings.HasPrefix(hostname, "*."):
\* hostname = strings.TrimPrefix(hostname, "*.")
StripWildcard(host0) ==
    IF Contains(host0, Star) /\ HasPrefix(host0, Star \o Dot)
    THEN TrimPrefix(host0, Star \o Dot) ELSE host0

\* NewInput(inputURL): [ok |-> no error, input |-> the Input]
NewInput(inputURL) ==
    LET host0 == Hostname(inputURL)
        hostname == StripWildcard(host0)
    IN  IF host0 = <<>> THEN [ok |-> FALSE, input |-> NoInput]
        ELSE IF Contains(hostname, Star) THEN [ok |-> FALSE, input |-> NoInput]
        ELSE IF ~RootOf(hostname).ok THEN [ok |-> FALSE, input |-> NoInput]
        ELSE [ok |-> TRUE, input |-> Decompose(hostname, RootOf(hostname).domain)]

DigitChars == <<"0", "1", "2", "3", "4", "5", "6", "7", "8", "9">>

RECURSIVE Itoa(_)
\* strconv.Itoa for n >= 0
Itoa(n) == IF n < 10 THEN <<DigitChars[n + 1]>> ELSE Itoa(n \div 10) \o <<DigitChars[(n % 10) + 1]>>

keyTLD == <<"t", "l", "d">>
keyETLD == <<"e", "t", "l", "d">>
keySLD == <<"s", "l", "d">>
keyRoot == <<"r", "o", "o", "t">>
keySub == <<"s", "u", "b">>
keySuffix == <<"s", "u", "f", "f", "i", "x">>

\* the map of GetMap before its empty values are purged
FullMap(i) ==
    [k \in {keyTLD, keyETLD, keySLD, keyRoot, keySub, keySuffix}
           \cup {keySub \o Itoa(n) : n \in 1..Len(i.MultiLevel)} |->
        IF k = keyTLD THEN i.TLD
        ELSE IF k = keyETLD THEN i.ETLD
        ELSE IF k = keySLD THEN i.SLD
        ELSE IF k = keyRoot THEN i.Root
        ELSE IF k = keySub THEN i.Sub
        ELSE IF k = keySuffix THEN i.Suffix
        ELSE i.MultiLevel[CHOOSE n \in 1..Len(i.MultiLevel) : k = keySub \o Itoa(n)]]

\* a bug: the empty values are not purged
GetMap_NoPurge(i) == FullMap(i)

\* (i *Input) GetMap()
GetMap(i) == [k \in {q \in DOMAIN FullMap(i) : FullMap(i)[q] # <<>>} |-> FullMap(i)[k]]

(***************************************************************************)
(* algo.go: IndexMap and ClusterBomb.                                      *)
(* An IndexMap is [values |-> key -> sequence, indexes |-> sequence of     *)
(* keys]; Go's positions 0..n-1 are kept in the operators' arguments.      *)
(* The callback of a ClusterBomb run is the counting callback of the       *)
(* tests: it records its argument and answers false on its stop-th         *)
(* invocation (stop = 0: it always answers true).                          *)
(***************************************************************************)
\* NewIndexMap numbers the keys in the order of one iteration over a Go map:
\* any order, fixed for the life of the IndexMap. order is that iteration.
NewIndexMap(values, order) == [values |-> values, indexes |-> order]

Cap(o) == Cardinality(DOMAIN o.values)

\* o.indexes[n]; a missing position reads as Go's zero value, the empty key
KeyAtNth(o, n) == IF n + 1 \in DOMAIN o.indexes THEN o.indexes[n + 1] ELSE <<>>

\* a bug: an empty value list is read as one empty value
GetNth_EmptyAsOne(o, n) ==
    IF KeyAtNth(o, n) \notin DOMAIN o.values THEN <<>>
    ELSE IF o.values[KeyAtNth(o, n)] = <<>> THEN << <<>> >>
    ELSE o.values[KeyAtNth(o, n)]

\* o.values[o.indexes[n]]; a missing key reads as the nil slice
GetNth(o, n) ==
    IF KeyAtNth(o, n) \in DOMAIN o.values THEN o.values[KeyAtNth(o, n)] ELSE <<>>

\* the callback's answer after its invocations so far (calls includes this one)
CallbackContinues(calls, stop) == Len(calls) # stop

\* a bug: the values chosen for the earlier variables are not put in the map
VectorMap_Forgets(o, Vector) == [k \in {} |-> <<>>]

\* vectorMap[payloads.KeyAtNth(k)] = v for the elements of Vector
VectorMap(o, Vector) ==
    [k \in {KeyAtNth(o, i - 1) : i \in 1..Len(Vector)} |->
        Vector[CHOOSE i \in 1..Len(Vector) : KeyAtNth(o, i - 1) = k]]

\* a bug: the map passed to the callback holds the final variable only
MapSet_OnlyKey(vectorMap, key, elem) == [k \in {key} |-> elem]

\* vectorMap[key] = elem, on a map that may or may not hold key
MapSet(vectorMap, key, elem) ==
    [k \in DOMAIN vectorMap \cup {key} |-> IF k = key THEN elem ELSE vectorMap[k]]

\* len(Vector) == payloads.Cap()-1
IsBaseCase(o, Vector) == Len(Vector) = Cap(o) - 1

\* a bug: a false answer of the recursive call is dropped
StopsOnFalse_Never(r) == FALSE

\* if !ClusterBomb(payloads, callback, tmp) { return false }
StopsOnFalse(r) == ~r.ok

RECURSIVE ClusterBomb(_, _, _, _), BaseLoop(_, _, _, _, _), RecLoop(_, _, _, _, _)

\* the loop of the base case, from element e (1-based) of payloads.GetNth(index)
BaseLoop(o, stop, Vector, e, calls) ==
    LET index == Len(Vector)
        elems == GetNth(o, index)
    IN  IF e > Len(elems) THEN [ok |-> TRUE, calls |-> calls]
        ELSE LET vm == MapSet(VectorMap(o, Vector), KeyAtNth(o, index), elems[e])
                 now == Append(calls, vm)
             IN  IF ~CallbackContinues(now, stop)
                 THEN [ok |-> FALSE, calls |-> now]
                 ELSE BaseLoop(o, stop, Vector, e + 1, now)

\* the loop of the recursive case, from element e (1-based) of payloads.GetNth(index)
RecLoop(o, stop, Vector, e, calls) ==
    LET index == Len(Vector)
        elems == GetNth(o, index)
    IN  IF e > Len(elems) THEN [ok |-> TRUE, calls |-> calls]
        ELSE LET r == ClusterBomb(o, stop, Append(Vector, elems[e]), calls)
             IN  IF StopsOnFalse(r)
                 THEN [ok |-> FALSE, calls |-> r.calls]
                 ELSE RecLoop(o, stop, Vector, e + 1, r.calls)

\* ClusterBomb(payloads, callback, Vector): [ok |-> its result, calls |-> the
\* arguments of the callback's invocations, in order]
ClusterBomb(o, stop, Vector, calls) ==
    IF IsBaseCase(o, Vector)
    THEN BaseLoop(o, stop, Vector, 1, calls)
    ELSE RecLoop(o, stop, Vector, 1, calls)

(***************************************************************************)
(* mutator.go: New and what it calls.                                      *)
(***************************************************************************)
keyWord == <<"w", "o", "r", "d">>
keyNumber == <<"n", "u", "m", "b", "e", "r">>

\* "{{word}}.{{root}}"
patWordRoot == ParenthesisOpen \o keyWord \o ParenthesisClose \o Dot
               \o ParenthesisOpen \o keyRoot \o ParenthesisClose

\* DefaultConfig as config.go initialises it, cut to one pattern and one word
DefaultConfig == [Patterns |-> <<patWordRoot>>, Payloads |-> [k \in {keyWord} |-> << <<"v">> >>]]

\* the maximal runs of characters of class in s that are at least min long,
\* left to right: regexp.FindAllString for [class]{min,}
RECURSIVE FindAllRuns(_, _, _, _)
FindAllRuns(s, class, min, i) ==
    LET RECURSIVE RunLen(_)
        RunLen(j) == IF j <= Len(s) /\ s[j] \in class THEN 1 + RunLen(j + 1) ELSE 0
        n == RunLen(i)
    IN  IF i > Len(s) THEN <<>>
        ELSE IF n = 0 THEN FindAllRuns(s, class, min, i + 1)
        ELSE IF n >= min THEN <<SubSeq(s, i, i + n - 1)>> \o FindAllRuns(s, class, min, i + n)
        ELSE FindAllRuns(s, class, min, i + n)

RECURSIVE EnrichText(_)
\* temp of enrichPayloads: for each input, Sub, a space and the MultiLevel
\* labels joined by spaces
EnrichText(inputs) ==
    IF inputs = <<>> THEN <<>>
    ELSE inputs[1].Sub \o <<" ">> \o Join(inputs[1].MultiLevel, <<" ">>) \o EnrichText(Tail(inputs))

\* m.Options.Payloads[k], the nil slice for a missing key
PayloadsOf(payloads, k) == IF k \in DOMAIN payloads THEN payloads[k] ELSE <<>>

\* enrichPayloads: the payloads after it
enrichPayloads(inputs, payloads) ==
    LET temp == EnrichText(inputs)
        numbers == FindAllRuns(temp, Digits, 1, 1)
        words0 == FindAllRuns(temp, Letters \cup Digits, 1, 1)
        wordsOnly == FindAllRuns(temp, Letters, 3, 1)
        extraWords == IF wordsOnly # <<>> THEN Dedupe(words0 \o wordsOnly) ELSE words0
    IN  [k \in DOMAIN payloads |->
            IF k = keyWord /\ payloads[k] # <<>> THEN Dedupe(extraWords \o payloads[k])
            ELSE IF k = keyNumber /\ payloads[k] # <<>> THEN Dedupe(numbers \o payloads[k])
            ELSE payloads[k]]

\* a bug: a malformed pattern is let through
validatePatterns_Lax(patterns) == TRUE

\* validatePatterns() == nil
validatePatterns(patterns) == \A i \in DOMAIN patterns : TemplateValid(patterns[i])

\* a bug: the domains that fail to parse are kept, as empty inputs
prepareInputs_KeepFailed(domains) == [i \in DOMAIN domains |-> NewInput(domains[i]).input]

RECURSIVE prepareInputs(_)
\* allInputs of prepareInputs: the Input of every domain that parses, in order
prepareInputs(domains) ==
    IF domains = <<>> THEN <<>>
    ELSE (IF NewInput(domains[1]).ok THEN <<NewInput(domains[1]).input>> ELSE <<>>)
         \o prepareInputs(Tail(domains))

\* if !opts.DedupeResults { opts.DedupeResults = true }
DedupeDefault(dedupeResults) == IF ~dedupeResults THEN TRUE ELSE dedupeResults

\* opts.Payloads = DefaultConfig.Payloads makes the two one Go map: what New
\* and enrichPayloads write to opts.Payloads of a caller that gave no payloads
\* is written to DefaultConfig.Payloads
WrittenThrough(o, config, payloads) ==
    IF DOMAIN o.Payloads = {} THEN [config EXCEPT !.Payloads = payloads] ELSE config

\* New(opts), with DefaultConfig as it is at the call: [err |-> "" or the
\* error, opts |-> the Options as New leaves them, Inputs |-> m.Inputs,
\* DefaultConfig |-> DefaultConfig as New leaves it]
New(o, config) ==
    LET payloads0 == IF DOMAIN o.Payloads = {} THEN config.Payloads ELSE o.Payloads
        patterns == IF o.Patterns = <<>> THEN config.Patterns ELSE o.Patterns
        payloads == [k \in DOMAIN payloads0 |-> Dedupe(payloads0[k])]
        inputs == prepareInputs(o.Domains)
        enriched == IF o.Enrich THEN enrichPayloads(inputs, payloads) ELSE payloads
        o1 == [o EXCEPT !.DedupeResults = DedupeDefault(o.DedupeResults)]
        o2 == [o1 EXCEPT !.Payloads = payloads0]
        o3 == [o2 EXCEPT !.Patterns = patterns]
        o4 == [o3 EXCEPT !.Payloads = payloads]
        o5 == [o4 EXCEPT !.Payloads = enriched]
        deduped == WrittenThrough(o, config, payloads)
    IN  IF Len(o.Domains) = 0
        THEN [err |-> "no domains provided", opts |-> o, Inputs |-> <<>>, DefaultConfig |-> config]
        ELSE IF DOMAIN o.Payloads = {} /\ DOMAIN config.Payloads = {}
        THEN [err |-> "no payloads available", opts |-> o1, Inputs |-> <<>>,
              DefaultConfig |-> config]
        ELSE IF o.Patterns = <<>> /\ config.Patterns = <<>>
        THEN [err |-> "no patterns available", opts |-> o2, Inputs |-> <<>>,
              DefaultConfig |-> config]
        ELSE IF ~validatePatterns(patterns)
        THEN [err |-> "pattern validation failed", opts |-> o4, Inputs |-> <<>>,
              DefaultConfig |-> deduped]
        ELSE IF inputs = <<>>
        THEN [err |-> "all input domains failed to parse", opts |-> o4, Inputs |-> <<>>,
              DefaultConfig |-> deduped]
        ELSE [err |-> "", opts |-> o5, Inputs |-> inputs,
              DefaultConfig |-> WrittenThrough(o, config, enriched)]

(***************************************************************************)
(* mutator.go: EstimateCount and the expansion of clusterBomb.             *)
(***************************************************************************)
\* a bug: only the first variable is counted
ProductOfLens_First(payloads, varsUsed) ==
    IF varsUsed = <<>> THEN 1 ELSE Len(PayloadsOf(payloads, varsUsed[1]))

RECURSIVE ProductOfLens(_, _)
\* tmpCounter: the product of len(m.Options.Payloads[word]) over varsUsed
ProductOfLens(payloads, varsUsed) ==
    IF varsUsed = <<>> THEN 1
    ELSE Len(PayloadsOf(payloads, varsUsed[1])) * ProductOfLens(payloads, Tail(varsUsed))

\* a bug: a pair that is skipped is counted as one result
EstimatePair_CountSkipped(input, pattern, payloads) ==
    LET statement == Replace(pattern, GetMap(input))
        varsUsed == getAllVars(statement)
    IN  [count |-> IF varsUsed = <<>> \/ ~checkMissing(pattern, getSampleMap(GetMap(input), payloads))
                   THEN 1 ELSE ProductOfLens(payloads, varsUsed),
         len |-> Len(statement)]

\* what the pair (input, pattern) adds to counter, and its statement
EstimatePair(input, pattern, payloads) ==
    LET statement == Replace(pattern, GetMap(input))
        varsUsed == getAllVars(statement)
    IN  IF ~checkMissing(pattern, getSampleMap(GetMap(input), payloads))
        THEN [count |-> 0, len |-> 0]
        ELSE [count |-> IF varsUsed = <<>> THEN 1 ELSE ProductOfLens(payloads, varsUsed),
              len |-> Len(statement)]

RECURSIVE EstimateFrom(_, _, _, _, _)
\* EstimateCount from pair k, in the order of its loops (input-major), with
\* counter and m.maxkeyLenInBytes so far
EstimateFrom(inputs, o, k, counter, maxkey) ==
    LET np == Len(o.Patterns)
        e == EstimatePair(inputs[((k - 1) \div np) + 1], o.Patterns[((k - 1) % np) + 1], o.Payloads)
    IN  IF np = 0 \/ k > Len(inputs) * np
        THEN [count |-> counter, maxkeyLenInBytes |-> maxkey]
        ELSE EstimateFrom(inputs, o, k + 1, counter + e.count,
                          IF maxkey < e.len THEN e.len ELSE maxkey)

\* EstimateCount(): its result and m.maxkeyLenInBytes after it
EstimateCount(inputs, o, maxkey) == EstimateFrom(inputs, o, 1, 0, maxkey)

\* a bug: only the words that are a suffix of the leftmost part are dropped
payloadSetOf_SuffixOnly(template, payloads) ==
    LET leftmostPart == CutBefore(template, Dot)
        Keep(word) == ~HasSuffix(leftmostPart, word)
    IN  [v \in Range(getAllVars(template)) |-> SelectSeq(PayloadsOf(payloads, v), Keep)]

\* payloadSet of clusterBomb: for every variable of the template, the payload
\* words that are neither a prefix nor a suffix of the leftmost part
payloadSetOf(template, payloads) ==
    LET leftmostPart == CutBefore(template, Dot)
        Keep(word) == ~HasPrefix(leftmostPart, word) /\ ~HasSuffix(leftmostPart, word)
    IN  [v \in Range(getAllVars(template)) |-> SelectSeq(PayloadsOf(payloads, v), Keep)]

\* a bug: a statement without variables gives no result
Expansion_DropsPlain(template, payloads, order) ==
    LET calls == ClusterBomb(NewIndexMap(payloadSetOf(template, payloads), order), 0, <<>>, <<>>).calls
    IN  IF getAllVars(template) = <<>> THEN <<>>
        ELSE [n \in 1..Len(calls) |-> Replace(template, calls[n])]

\* the results clusterBomb offers to the channel, in order, when it is never
\* cancelled; order is the key order NewIndexMap draws
Expansion(template, payloads, order) ==
    LET calls == ClusterBomb(NewIndexMap(payloadSetOf(template, payloads), order), 0, <<>>, <<>>).calls
    IN  IF getAllVars(template) = <<>> THEN <<template>>
        ELSE [n \in 1..Len(calls) |-> Replace(template, calls[n])]

(***************************************************************************)
(* mutator.go: the filters of ExecuteWithWriter.                           *)
(***************************************************************************)
\* a bug: the limit is compared one too late
LimitReached_OffByOne(o, payloadCount) == o.Limit > 0 /\ payloadCount > o.Limit

\* a bug: the limit is reached one line early
LimitReached_Early(o, payloadCount) == o.Limit > 0 /\ payloadCount + 1 >= o.Limit

\* m.Options.Limit > 0 && m.payloadCount >= m.Options.Limit
LimitReached(o, payloadCount) == o.Limit > 0 /\ payloadCount >= o.Limit

\* m.Options.MaxSize > 0 && remainingSize <= 0
SizeExhausted(o, remaining) == o.MaxSize > 0 /\ remaining <= 0

\* a bug: the validity filter is missing
StartsWithHyphen_Never(value) == FALSE

\* strings.HasPrefix(value, "-")
StartsWithHyphen(value) == HasPrefix(value, <<"-">>)

\* []byte(value + "\n")
outputDataOf(value) == value \o <<"\n">>

\* a bug: the count of the run before is kept
ResetCount_Keeps(count) == count

\* m.payloadCount = 0, after Execute has returned
ResetCount(count) == 0

\* a bug: the line terminator is not counted
ExceedsBudget_NoNewline(o, value, remaining) == o.MaxSize > 0 /\ Len(value) > remaining

\* m.Options.MaxSize > 0 && len(outputData) > remainingSize
ExceedsBudget(o, value, remaining) == o.MaxSize > 0 /\ Len(outputDataOf(value)) > remaining

(***************************************************************************)
(* The state.                                                              *)
(***************************************************************************)
VARIABLES
    given,          \* the Options as the caller passed them to New
    opts,           \* the Options object, which New and the Mutator share
    m,              \* the Mutator: Inputs, payloadCount, maxkeyLenInBytes
    pc,             \* the caller: start, failed, ready, drain, consume, returned
    newErr,         \* the error of New, "" for none
    ret,            \* the result of ExecuteWithWriter: "pending", "nil" or the error
    cancelled,      \* ctx.Done() is closed
    preCancelled,   \* ctx was cancelled before ExecuteWithWriter was called
    prod,           \* the producer goroutine of Execute
    results,        \* the channel results: its buffer and whether it is closed
    emitted,        \* every string the producer has sent, in order
    storage,        \* the dedupe backend: the set of strings it holds
    dd,             \* the goroutine of GetResults: what it has still to send
    send,           \* the channel GetResults returns
    remainingSize,  \* remainingSize of ExecuteWithWriter
    sink,           \* the lines written to the writer in full, in order
    sinkBytes,      \* the bytes the writer has accepted
    cbIn,           \* a ClusterBomb call: its IndexMap and its callback
    cbOut,          \* the outcome of that call
    niIn,           \* a NewInput call: its argument
    niOut,          \* the outcome of that call
    gmOut,          \* the maps the GetMap calls on that Input have returned
    api,            \* the calls a caller has made on the Mutator, one after another
    defaultConfig   \* the package variable DefaultConfig, as it is now

vars == <<given, opts, m, pc, newErr, ret, cancelled, preCancelled, prod, results,
          emitted, storage, dd, send, remainingSize, sink, sinkBytes, cbIn, cbOut,
          niIn, niOut, gmOut, api, defaultConfig>>

runVars == <<given, opts, m, pc, newErr, ret, cancelled, preCancelled, prod, results,
             emitted, storage, dd, send, remainingSize, sink, sinkBytes>>

cbVars == <<cbIn, cbOut>>

niVars == <<niIn, niOut, gmOut>>

\* the variables of the calls made outside a run
asideVars == <<cbVars, niVars, api, defaultConfig>>

\* capacity of the channel of GetResults
SendCap == 100

(***************************************************************************)
(* The inputs of the model.                                                *)
(***************************************************************************)
\* "a.com": a registrable name without a subdomain
domA == <<"a", ".", "c", "o", "m">>
\* "x.b.uk": a registrable name with the subdomain x
domXB == <<"x", ".", "b", ".", "u", "k">>
\* "com": a public suffix, which does not decompose
domSuffix == <<"c", "o", "m">>

DomainPool == {domA, domXB, domSuffix}

\* "{{word": malformed
patBad == ParenthesisOpen \o keyWord

PatternPool == {patWordRoot, patBad}

\* the sequences over S of length at most n
SeqsUpTo(S, n) == UNION {[1..k -> S] : k \in 0..n}

\* the sequences over S of length at most n that repeat no element
DistinctSeqsUpTo(S, n) ==
    {q \in SeqsUpTo(S, n) : \A i, j \in DOMAIN q : q[i] = q[j] => i = j}

\* one word, "api"; or two words, "-x" and "v"
PayloadChoices ==
    { [k \in {keyWord} |-> << <<"a", "p", "i">> >>],
      [k \in {keyWord} |-> << <<"-", "x">>, <<"v">> >>] }

\* 0: no byte budget; 14: one line, of either word, and not a second one
MaxSizeChoices == {0, 14}

OptionsChoices ==
    [Domains : DistinctSeqsUpTo(DomainPool, MaxDomains),
     Patterns : SeqsUpTo(PatternPool, MaxPatterns),
     Payloads : PayloadChoices,
     Limit : 0..MaxLimit,
     Enrich : {FALSE},
     MaxSize : MaxSizeChoices,
     DedupeResults : BOOLEAN]

\* "{{word}}-{{number}}.{{root}}"
patWordNumber == ParenthesisOpen \o keyWord \o ParenthesisClose \o <<"-">>
                 \o ParenthesisOpen \o keyNumber \o ParenthesisClose \o Dot
                 \o ParenthesisOpen \o keyRoot \o ParenthesisClose

\* "{{sub}}-{{word}}.{{suffix}}"
patSubWord == ParenthesisOpen \o keySub \o ParenthesisClose \o <<"-">>
              \o ParenthesisOpen \o keyWord \o ParenthesisClose \o Dot
              \o ParenthesisOpen \o keySuffix \o ParenthesisClose

Scenario(domains, patterns, payloads, maxSize) ==
    [Domains |-> domains, Patterns |-> patterns, Payloads |-> payloads, Limit |-> 0,
     Enrich |-> FALSE, MaxSize |-> maxSize, DedupeResults |-> TRUE]

\* two domains and a budget of 9 bytes: "api.b.uk\n" fits, "api.a.com\n" does not
TwoDomainsBudget ==
    Scenario(<<domA, domXB>>, <<patWordRoot>>, [k \in {keyWord} |-> << <<"a", "p", "i">> >>], 9)

\* a pattern with two payload variables of two words each
TwoVariables ==
    Scenario(<<domA>>, <<patWordNumber>>,
             [k \in {keyWord, keyNumber} |->
                 IF k = keyWord THEN << <<"a">>, <<"v">> >> ELSE << <<"1">>, <<"2">> >>], 0)

\* a pattern that needs {{sub}}, which "a.com" does not have, and a word, "x",
\* that is the leftmost label of "x.b.uk" already
SubNeeded ==
    Scenario(<<domA, domXB>>, <<patSubWord, patWordRoot>>,
             [k \in {keyWord} |-> << <<"x">>, <<"v">> >>], 0)

\* every result starts with a hyphen
HyphenOnly ==
    Scenario(<<domA>>, <<patWordRoot>>, [k \in {keyWord} |-> << <<"-", "x">> >>], 0)

APIChoices == {TwoDomainsBudget, TwoVariables, SubNeeded, HyphenOnly}

\* a limit of one line, for three results of which the first word gives one
\* that starts with a hyphen
LimitedRun ==
    [Scenario(<<domA>>, <<patWordRoot>>, [k \in {keyWord} |-> << <<"-", "x">>, <<"v">>, <<"a">> >>], 0)
        EXCEPT !.Limit = 1]

\* a word of nine characters, "longwords": longer than "{{word}}"
LongWord ==
    Scenario(<<domA>>, <<patWordRoot>>,
             [k \in {keyWord} |-> << <<"l", "o", "n", "g", "w", "o", "r", "d", "s">> >>], 0)

\* "{{sub}}-{{word}}-{{number}}.{{suffix}}"
patSubWordNumber == ParenthesisOpen \o keySub \o ParenthesisClose \o <<"-">>
                    \o ParenthesisOpen \o keyWord \o ParenthesisClose \o <<"-">>
                    \o ParenthesisOpen \o keyNumber \o ParenthesisClose \o Dot
                    \o ParenthesisOpen \o keySuffix \o ParenthesisClose

\* two payload variables, and the only word is the leftmost label of "x.b.uk"
OnlyWordTaken ==
    Scenario(<<domXB>>, <<patSubWordNumber>>,
             [k \in {keyWord, keyNumber} |-> IF k = keyWord THEN << <<"x">> >> ELSE << <<"1">> >>], 0)

\* a budget of 9 bytes: "v.a.com\n" leaves one byte of it, and "-xy.a.com\n"
\* is larger than all of it
HyphenOverBudget ==
    Scenario(<<domA>>, <<patWordRoot>>, [k \in {keyWord} |-> << <<"-", "x", "y">>, <<"v">> >>], 9)

\* the options of the runs that are followed to their end
FairChoices == APIChoices \cup {LimitedRun, LongWord, OnlyWordTaken, HyphenOverBudget}

\* "www.{{root}}": no payload variable
patPlain == <<"w", "w", "w">> \o Dot \o ParenthesisOpen \o keyRoot \o ParenthesisClose

\* a pattern with one payload variable and a pattern with none
PlainPattern ==
    Scenario(<<domA>>, <<patWordRoot, patPlain>>, [k \in {keyWord} |-> << <<"v">> >>], 0)

\* the options of the runs of which the results are counted
CountChoices == {TwoDomainsBudget, TwoVariables, PlainPattern, OnlyWordTaken}

\* the options a run of the model is given
RunChoices == OptionsChoices \cup FairChoices \cup CountChoices

\* m.Inputs[i] of these runs: the domains that decompose
InputsMet ==
    {NewInput(d).input : d \in {d \in UNION {Range(o.Domains) : o \in RunChoices} : NewInput(d).ok}}

\* m.Options.Patterns[j] of these runs: New refuses the malformed patterns
PatternsMet ==
    {p \in UNION ({Range(o.Patterns) : o \in RunChoices} \cup {Range(DefaultConfig.Patterns)}) :
        TemplateValid(p)}

\* m.Options.Payloads of these runs, as New leaves them
PayloadsMet ==
    {[k \in DOMAIN p |-> Dedupe(p[k])] : p \in {o.Payloads : o \in RunChoices} \cup {DefaultConfig.Payloads}}

\* timeTaken: 0 is the zero value, Measured a duration the producer measured
Measured == 1

NoMutator == [Inputs |-> <<>>, payloadCount |-> 0, maxkeyLenInBytes |-> 0, timeTaken |-> 0]

IdleProducer == [pc |-> "idle", i |-> 1, j |-> 1, pending |-> <<>>]

OpenChannel == [buf |-> <<>>, closed |-> FALSE]

NoCall == [values |-> <<>>, indexes |-> <<>>, stop |-> 0]

NoOutcome == [done |-> FALSE, ok |-> FALSE, calls |-> <<>>]

NoURL == [host |-> <<>>, url |-> <<>>]

NoDecomposition == [done |-> FALSE, ok |-> FALSE, input |-> NoInput]

\* no earlier call: nothing generated, nothing written
NoRun == [call |-> "none", emitted |-> <<>>, written |-> 0, count |-> 0]

NoAnswer == [value |-> -1, runs |-> 0]

\* runs: the calls of ExecuteWithWriter and DryRun so far; call: the last of
\* them; prev: what the one before it left; est, pcount: the last answers of
\* EstimateCount and PayloadCount
NoCalls == [runs |-> 0, call |-> "none", prev |-> NoRun, est |-> -1, pcount |-> NoAnswer]

NoOptions ==
    [Domains |-> <<>>, Patterns |-> <<>>, Payloads |-> <<>>, Limit |-> 0,
     Enrich |-> FALSE, MaxSize |-> 0, DedupeResults |-> FALSE]

RunIdle ==
    /\ m = NoMutator /\ newErr = "" /\ ret = "pending"
    /\ cancelled = FALSE /\ preCancelled = FALSE
    /\ prod = IdleProducer /\ results = OpenChannel /\ emitted = <<>>
    /\ storage = {} /\ dd = [pc |-> "idle", left |-> {}] /\ send = OpenChannel
    /\ remainingSize = 0 /\ sink = <<>> /\ sinkBytes = 0
    /\ defaultConfig = DefaultConfig

Init ==
    /\ given \in OptionsChoices
    /\ opts = given
    /\ pc = "start"
    /\ RunIdle
    /\ cbIn = NoCall /\ cbOut = NoOutcome
    /\ niIn = NoURL /\ niOut = NoDecomposition /\ gmOut = <<>>
    /\ api = NoCalls

(***************************************************************************)
(* The caller: New, then ExecuteWithWriter; the context may be cancelled   *)
(* at any moment from the construction on.                                 *)
(***************************************************************************)
\* m, err := New(opts)
CallNew ==
    /\ pc = "start"
    /\ \E made \in {New(opts, defaultConfig)} :
          /\ opts' = made.opts
          /\ newErr' = made.err
          /\ m' = [NoMutator EXCEPT !.Inputs = made.Inputs]
          /\ pc' = IF made.err = "" THEN "ready" ELSE "failed"
          /\ defaultConfig' = made.DefaultConfig
    /\ UNCHANGED <<given, ret, cancelled, preCancelled, prod, results, emitted, storage,
                   dd, send, remainingSize, sink, sinkBytes, cbVars, niVars, api>>

\* cancel() of the context the caller passes
Cancel ==
    /\ pc \in {"ready", "drain", "consume"}
    /\ ~cancelled
    /\ cancelled' = TRUE
    /\ preCancelled' = (pc = "ready")
    /\ UNCHANGED <<given, opts, m, pc, newErr, ret, prod, results, emitted, storage,
                   dd, send, remainingSize, sink, sinkBytes, asideVars>>

\* ExecuteWithWriter(ctx, nil)
CallWithNilWriter ==
    /\ pc = "ready"
    /\ ret' = "writer destination cannot be nil"
    /\ pc' = "returned"
    /\ UNCHANGED <<given, opts, m, newErr, cancelled, preCancelled, prod, results, emitted,
                   storage, dd, send, remainingSize, sink, sinkBytes, asideVars>>

\* ExecuteWithWriter(ctx, writer) up to its loop: Execute estimates (with
\* dedupe), makes the channel and starts the producer; with dedupe it then
\* blocks in Drain, without it the loop starts on the producer's channel
CallExecuteWithWriter ==
    /\ pc = "ready"
    /\ results' = OpenChannel
    /\ prod' = [pc |-> "input", i |-> 1, j |-> 1, pending |-> <<>>]
    /\ IF opts.DedupeResults
       THEN /\ pc' = "drain"
            /\ m' = [m EXCEPT !.maxkeyLenInBytes =
                        EstimateCount(m.Inputs, opts, m.maxkeyLenInBytes).maxkeyLenInBytes]
            /\ UNCHANGED remainingSize
       ELSE /\ pc' = "consume"
            /\ m' = [m EXCEPT !.payloadCount = ResetCount(@)]
            /\ remainingSize' = opts.MaxSize
    /\ UNCHANGED <<given, opts, newErr, ret, cancelled, preCancelled, emitted, storage,
                   dd, send, sink, sinkBytes, asideVars>>

(***************************************************************************)
(* The producer goroutine of Execute.                                      *)
(***************************************************************************)
\* a bug: the goroutine returns and leaves its channel open
ProducerReturns_NoClose ==
    /\ m' = [m EXCEPT !.timeTaken = Measured]
    /\ UNCHANGED results
    /\ prod' = [prod EXCEPT !.pc = "closed", !.pending = <<>>]

\* a bug: the goroutine resets the written counter when it returns
ProducerReturns_ResetsCount ==
    /\ m' = [m EXCEPT !.timeTaken = Measured, !.payloadCount = 0]
    /\ results' = [results EXCEPT !.closed = TRUE]
    /\ prod' = [prod EXCEPT !.pc = "closed", !.pending = <<>>]

\* m.timeTaken = time.Since(now) and then the deferred close(results), on
\* every return of the goroutine
ProducerReturns ==
    /\ m' = [m EXCEPT !.timeTaken = Measured]
    /\ results' = [results EXCEPT !.closed = TRUE]
    /\ prod' = [prod EXCEPT !.pc = "closed", !.pending = <<>>]

\* a bug: the checkpoints never see the cancellation
CtxDone_Never == FALSE

\* select { case <-ctx.Done(): ...; default: }: the Done case is taken exactly
\* when the context is cancelled
CtxDone == cancelled

\* the head of the loop over m.Inputs, with its cancellation check
ProdInput ==
    /\ prod.pc = "input"
    /\ IF prod.i > Len(m.Inputs) \/ CtxDone
       THEN ProducerReturns
       ELSE /\ prod' = [prod EXCEPT !.pc = "pattern", !.j = 1]
            /\ UNCHANGED <<m, results>>
    /\ UNCHANGED <<given, opts, pc, newErr, ret, cancelled, preCancelled, emitted,
                   storage, dd, send, remainingSize, sink, sinkBytes, asideVars>>

\* the body of the loop over the patterns for one pair: whether the pattern is
\* covered (checkMissing answers nil on the sample map) and, for each order
\* NewIndexMap may draw, the results clusterBomb offers for the statement
\* Replace(pattern, v.GetMap())
PatternBody(input, pattern, payloads) ==
    LET statement == Replace(pattern, GetMap(input))
        covered == checkMissing(pattern, getSampleMap(GetMap(input), payloads))
    IN  [covered |-> covered,
         offers |-> IF ~covered THEN {}
                    ELSE {Expansion(statement, payloads, order) \o <<>> :
                             order \in Perms(Range(getAllVars(statement)))}]

\* PatternBody, worked out once for every pair a run can meet
PatternBodies ==
    {[input |-> input, pattern |-> pattern, payloads |-> payloads,
      body |-> PatternBody(input, pattern, payloads)] :
        input \in InputsMet, pattern \in PatternsMet, payloads \in PayloadsMet}

\* the body of the loop for the pair the producer is at
Body ==
    (CHOOSE row \in PatternBodies :
        /\ row.input = m.Inputs[prod.i]
        /\ row.pattern = opts.Patterns[prod.j]
        /\ row.payloads = opts.Payloads).body

\* the head of the loop over the patterns, with its cancellation check, the
\* coverage check and the start of clusterBomb
ProdPattern ==
    /\ prod.pc = "pattern"
    /\ IF prod.j > Len(opts.Patterns)
       THEN /\ prod' = [prod EXCEPT !.pc = "input", !.i = prod.i + 1]
            /\ UNCHANGED <<m, results>>
       ELSE IF CtxDone
       THEN ProducerReturns
       ELSE IF ~Body.covered
       THEN /\ prod' = [prod EXCEPT !.j = prod.j + 1]
            /\ UNCHANGED <<m, results>>
       ELSE \E out \in Body.offers :
                /\ prod' = IF out = <<>> THEN [prod EXCEPT !.j = prod.j + 1]
                           ELSE [prod EXCEPT !.pc = "send", !.pending = out]
                /\ UNCHANGED <<m, results>>
    /\ UNCHANGED <<given, opts, pc, newErr, ret, cancelled, preCancelled, emitted,
                   storage, dd, send, remainingSize, sink, sinkBytes, asideVars>>

\* what follows the last callback of an expansion: the next pattern
AfterSend(rest) ==
    IF rest = <<>> THEN [prod EXCEPT !.pc = "pattern", !.j = prod.j + 1, !.pending = <<>>]
    ELSE [prod EXCEPT !.pending = rest]

\* case results <- ...: the channel has room (its capacity is the number of
\* patterns)
ProdSend ==
    /\ prod.pc = "send"
    /\ Len(results.buf) < Len(opts.Patterns)
    /\ results' = [results EXCEPT !.buf = Append(@, Head(prod.pending))]
    /\ emitted' = Append(emitted, Head(prod.pending))
    /\ prod' = AfterSend(Tail(prod.pending))
    /\ UNCHANGED <<given, opts, m, pc, newErr, ret, cancelled, preCancelled, storage,
                   dd, send, remainingSize, sink, sinkBytes, asideVars>>

\* case <-ctx.Done(): the callback answers false, ClusterBomb and clusterBomb
\* return, and the loop over the patterns goes on to its next check
ProdSendCancelled ==
    /\ prod.pc = "send"
    /\ cancelled
    /\ prod' = AfterSend(<<>>)
    /\ UNCHANGED <<given, opts, m, pc, newErr, ret, cancelled, preCancelled, results,
                   emitted, storage, dd, send, remainingSize, sink, sinkBytes, asideVars>>

(***************************************************************************)
(* The dedupe stage: Drain in the caller, GetResults in a goroutine.       *)
(***************************************************************************)
\* val, ok := <-d.receive with ok: d.backend.Upsert(val)
DrainReceive ==
    /\ pc = "drain"
    /\ results.buf # <<>>
    /\ results' = [results EXCEPT !.buf = Tail(@)]
    /\ storage' = storage \cup {Head(results.buf)}
    /\ UNCHANGED <<given, opts, m, pc, newErr, ret, cancelled, preCancelled, prod, emitted,
                   dd, send, remainingSize, sink, sinkBytes, asideVars>>

\* val, ok := <-d.receive with !ok: Drain returns, GetResults starts its
\* goroutine, Execute returns and ExecuteWithWriter reaches its loop
DrainEnd ==
    /\ pc = "drain"
    /\ results.buf = <<>> /\ results.closed
    /\ dd' = [pc |-> "iter", left |-> storage]
    /\ send' = OpenChannel
    /\ pc' = "consume"
    /\ m' = [m EXCEPT !.payloadCount = ResetCount(@)]
    /\ remainingSize' = opts.MaxSize
    /\ UNCHANGED <<given, opts, newErr, ret, cancelled, preCancelled, prod, results,
                   emitted, storage, sink, sinkBytes, asideVars>>

\* send <- elem in IterCallback: the backend is a Go map, iterated in any order
DedupeSend ==
    /\ dd.pc = "iter"
    /\ Len(send.buf) < SendCap
    /\ \E elem \in dd.left :
          /\ send' = [send EXCEPT !.buf = Append(@, elem)]
          /\ dd' = [dd EXCEPT !.left = @ \ {elem}]
    /\ UNCHANGED <<given, opts, m, pc, newErr, ret, cancelled, preCancelled, prod, results,
                   emitted, storage, remainingSize, sink, sinkBytes, asideVars>>

\* defer close(send)
DedupeClose ==
    /\ dd.pc = "iter"
    /\ dd.left = {}
    /\ send' = [send EXCEPT !.closed = TRUE]
    /\ dd' = [dd EXCEPT !.pc = "closed"]
    /\ UNCHANGED <<given, opts, m, pc, newErr, ret, cancelled, preCancelled, prod, results,
                   emitted, storage, remainingSize, sink, sinkBytes, asideVars>>

(***************************************************************************)
(* The loop of ExecuteWithWriter. Its select takes any case that is ready. *)
(***************************************************************************)
\* resChan: the channel Execute returned
resChan == IF opts.DedupeResults THEN send ELSE results

\* the channels after the loop has received the head of resChan
Received ==
    IF opts.DedupeResults
    THEN send' = [send EXCEPT !.buf = Tail(@)] /\ UNCHANGED results
    ELSE results' = [results EXCEPT !.buf = Tail(@)] /\ UNCHANGED send

\* case <-ctx.Done(): return ctx.Err()
ConsumeCancelled ==
    /\ pc = "consume"
    /\ cancelled
    /\ ret' = "context canceled"
    /\ pc' = "returned"
    /\ UNCHANGED <<given, opts, m, newErr, cancelled, preCancelled, prod, results, emitted,
                   storage, dd, send, remainingSize, sink, sinkBytes, asideVars>>

\* case value, ok := <-resChan with !ok: return nil
ConsumeClosed ==
    /\ pc = "consume"
    /\ resChan.buf = <<>> /\ resChan.closed
    /\ ret' = "nil"
    /\ pc' = "returned"
    /\ UNCHANGED <<given, opts, m, newErr, cancelled, preCancelled, prod, results, emitted,
                   storage, dd, send, remainingSize, sink, sinkBytes, asideVars>>

\* the result is skipped by the limit, the exhausted budget or the hyphen
Skipped(value) ==
    \/ LimitReached(opts, m.payloadCount)
    \/ SizeExhausted(opts, remainingSize)
    \/ StartsWithHyphen(value)

\* a bug: the budget is tested before the filters that skip a result
ClampsBudget_First(skipped, exceeds) == exceeds

\* the test of the budget is reached by a result that no filter before it
\* has skipped: the limit, the exhausted budget, the leading hyphen
ClampsBudget(skipped, exceeds) == ~skipped /\ exceeds

\* a bug: the budget is left as it was when a result is refused
AfterRefusal_Kept(remaining) == remaining

\* remainingSize = 0, when the result does not fit
AfterRefusal(remaining) == 0

\* case value, ok := <-resChan with ok, and the result is not written
ConsumeSkip ==
    /\ pc = "consume"
    /\ resChan.buf # <<>>
    /\ LET value == Head(resChan.buf)
       IN  /\ Skipped(value) \/ ExceedsBudget(opts, value, remainingSize)
           /\ remainingSize' =
                  IF ClampsBudget(Skipped(value), ExceedsBudget(opts, value, remainingSize))
                  THEN AfterRefusal(remainingSize)
                  ELSE remainingSize
    /\ Received
    /\ UNCHANGED <<given, opts, m, pc, newErr, ret, cancelled, preCancelled, prod, emitted,
                   storage, dd, sink, sinkBytes, asideVars>>

\* case value, ok := <-resChan with ok, and writer.Write accepts the line
ConsumeWrite ==
    /\ pc = "consume"
    /\ resChan.buf # <<>>
    /\ LET value == Head(resChan.buf)
       IN  /\ ~Skipped(value) /\ ~ExceedsBudget(opts, value, remainingSize)
           /\ sink' = Append(sink, value)
           /\ sinkBytes' = sinkBytes + Len(outputDataOf(value))
           /\ remainingSize' = IF opts.MaxSize > 0
                               THEN remainingSize - Len(outputDataOf(value))
                               ELSE remainingSize
           /\ m' = [m EXCEPT !.payloadCount = @ + 1]
    /\ Received
    /\ UNCHANGED <<given, opts, pc, newErr, ret, cancelled, preCancelled, prod, emitted,
                   storage, dd, asideVars>>

\* a bug: the loop goes on after a failed write
AfterWriteError_Continue == "consume"

\* if err != nil { return fmt.Errorf("failed to write output: %w", err) }
AfterWriteError == "returned"

\* case value, ok := <-resChan with ok, and writer.Write fails after it took
\* none or all but one of the bytes
ConsumeWriteFails ==
    /\ pc = "consume"
    /\ resChan.buf # <<>>
    /\ LET value == Head(resChan.buf)
       IN  /\ ~Skipped(value) /\ ~ExceedsBudget(opts, value, remainingSize)
           /\ \E n \in {0, Len(outputDataOf(value)) - 1} : sinkBytes' = sinkBytes + n
    /\ Received
    /\ ret' = "failed to write output"
    /\ pc' = AfterWriteError
    /\ UNCHANGED <<given, opts, m, newErr, cancelled, preCancelled, prod, emitted,
                   storage, dd, remainingSize, sink, asideVars>>

Next ==
    \/ CallNew
    \/ Cancel
    \/ CallWithNilWriter
    \/ CallExecuteWithWriter
    \/ ProdInput
    \/ ProdPattern
    \/ ProdSend
    \/ ProdSendCancelled
    \/ DrainReceive
    \/ DrainEnd
    \/ DedupeSend
    \/ DedupeClose
    \/ ConsumeCancelled
    \/ ConsumeClosed
    \/ ConsumeSkip
    \/ ConsumeWrite
    \/ ConsumeWriteFails

Spec == Init /\ [][Next]_vars

(***************************************************************************)
(* ClusterBomb on its own: the inputs are drawn, the call is made.         *)
(***************************************************************************)
cbKeys == {<<"a">>, <<"b">>, <<"c">>}

cbWords == << <<"x">>, <<"y">>, <<"z">>, <<"w">> >>

\* every map from some of the keys to a sequence of at most MaxVals words
cbValueMaps ==
    UNION {[K -> {SubSeq(cbWords, 1, n) : n \in 0..MaxVals}] : K \in SUBSET cbKeys}

InitCB ==
    /\ \E values \in cbValueMaps : \E order \in Perms(DOMAIN values) : \E stop \in 0..MaxStop :
          cbIn = [values |-> values, indexes |-> order, stop |-> stop]
    /\ cbOut = NoOutcome
    /\ given = NoOptions
    /\ opts = given
    /\ pc = "idle"
    /\ RunIdle
    /\ niIn = NoURL /\ niOut = NoDecomposition /\ gmOut = <<>>
    /\ api = NoCalls

\* ClusterBomb(NewIndexMap(values), callback, []string{})
CallClusterBomb ==
    /\ ~cbOut.done
    /\ LET r == ClusterBomb(NewIndexMap(cbIn.values, cbIn.indexes), cbIn.stop, <<>>, <<>>)
       IN  cbOut' = [done |-> TRUE, ok |-> r.ok, calls |-> r.calls]
    /\ UNCHANGED <<cbIn, runVars, niVars, api, defaultConfig>>

NextCB == CallClusterBomb

SpecCB == InitCB /\ [][NextCB]_vars

(***************************************************************************)
(* NewInput as a function of its argument: the hostnames are the label     *)
(* sequences of up to MaxLabels labels, written bare or as a URL with a    *)
(* scheme and a port.                                                      *)
(***************************************************************************)
LabelPool ==
    {<<"a">>, <<"x">>, Star, <<"c", "o", "m">>, <<"u", "k">>, <<"c", "o">>, <<>>}

HostPool == {Join(labels, Dot) : labels \in SeqsUpTo(LabelPool, MaxLabels) \ {<<>>}}

SchemeMarker == <<"h", "t", "t", "p", ":", "/", "/">>

PortPart == <<":", "4", "4", "3">>

\* the ways a hostname is written as an argument of NewInput
URLsOf(host) == {host, SchemeMarker \o host \o PortPart}

InitInput ==
    /\ \E host \in HostPool : \E url \in URLsOf(host) : niIn = [host |-> host, url |-> url]
    /\ niOut = NoDecomposition
    /\ gmOut = <<>>
    /\ api = NoCalls
    /\ cbIn = NoCall /\ cbOut = NoOutcome
    /\ given = NoOptions
    /\ opts = given
    /\ pc = "idle"
    /\ RunIdle

\* NewInput(inputURL)
CallNewInput ==
    /\ ~niOut.done
    /\ LET r == NewInput(niIn.url)
       IN  niOut' = [done |-> TRUE, ok |-> r.ok, input |-> r.input]
    /\ UNCHANGED <<niIn, gmOut, runVars, cbVars, api, defaultConfig>>

\* ivar.GetMap(), on the Input that NewInput returned
CallGetMap ==
    /\ niOut.done /\ niOut.ok
    /\ Len(gmOut) < MaxGetMap
    /\ gmOut' = Append(gmOut, GetMap(niOut.input))
    /\ UNCHANGED <<niIn, niOut, runVars, cbVars, api, defaultConfig>>

NextInput == CallNewInput \/ CallGetMap

SpecInput == InitInput /\ [][NextInput]_vars

(***************************************************************************)
(* NewInput on the ways a hostname is written: bare, with a scheme, with a *)
(* port, with a path.                                                      *)
(***************************************************************************)
PathPart == <<"/", "x">>

WrittenHosts == {Join(labels, Dot) : labels \in SeqsUpTo(LabelPool, MaxWritten) \ {<<>>}}

\* the hostname written bare, with a scheme, with a port, with a path, and
\* with all three
WaysToWrite(host) ==
    {host, SchemeMarker \o host, host \o PortPart, host \o PathPart,
     SchemeMarker \o host \o PortPart \o PathPart}

InitWritten ==
    /\ \E host \in WrittenHosts : \E url \in WaysToWrite(host) :
          niIn = [host |-> host, url |-> url]
    /\ niOut = NoDecomposition
    /\ gmOut = <<>>
    /\ api = NoCalls
    /\ cbIn = NoCall /\ cbOut = NoOutcome
    /\ given = NoOptions
    /\ opts = given
    /\ pc = "idle"
    /\ RunIdle

SpecWritten == InitWritten /\ [][CallNewInput]_vars

(***************************************************************************)
(* A caller that uses one Mutator for several calls, one after another:    *)
(* EstimateCount, PayloadCount, DryRun and ExecuteWithWriter, with a       *)
(* context that is never cancelled and a sink that never fails. A run is   *)
(* made of the steps of the producer, the dedupe stage and the loop above. *)
(***************************************************************************)
InitAPI ==
    /\ given \in APIChoices
    /\ opts = given
    /\ pc = "start"
    /\ RunIdle
    /\ api = NoCalls
    /\ cbIn = NoCall /\ cbOut = NoOutcome
    /\ niIn = NoURL /\ niOut = NoDecomposition /\ gmOut = <<>>

\* between two calls: the Mutator is built and no call is in progress
Callable == pc \in {"ready", "returned"}

\* m.Options.DedupeResults = false, by the caller that holds the Options
SetDedupeResults ==
    /\ pc = "ready"
    /\ api.runs = 0
    /\ opts.DedupeResults
    /\ opts' = [opts EXCEPT !.DedupeResults = FALSE]
    /\ UNCHANGED <<given, m, pc, newErr, ret, cancelled, preCancelled, prod, results, emitted,
                   storage, dd, send, remainingSize, sink, sinkBytes, asideVars>>

\* m.EstimateCount()
CallEstimateCount ==
    /\ Callable
    /\ LET e == EstimateCount(m.Inputs, opts, m.maxkeyLenInBytes)
       IN  /\ api' = [api EXCEPT !.est = e.count]
           /\ m' = [m EXCEPT !.maxkeyLenInBytes = e.maxkeyLenInBytes]
    /\ UNCHANGED <<given, opts, pc, newErr, ret, cancelled, preCancelled, prod, results,
                   emitted, storage, dd, send, remainingSize, sink, sinkBytes, cbVars, niVars, defaultConfig>>

\* m.PayloadCount(): its result and m.maxkeyLenInBytes after it
PayloadCount(mm, o) ==
    IF mm.payloadCount = 0 THEN EstimateCount(mm.Inputs, o, mm.maxkeyLenInBytes)
    ELSE [count |-> mm.payloadCount, maxkeyLenInBytes |-> mm.maxkeyLenInBytes]

\* m.PayloadCount()
CallPayloadCount ==
    /\ Callable
    /\ LET e == PayloadCount(m, opts)
       IN  /\ api' = [api EXCEPT !.pcount = [value |-> e.count, runs |-> api.runs]]
           /\ m' = [m EXCEPT !.maxkeyLenInBytes = e.maxkeyLenInBytes]
    /\ UNCHANGED <<given, opts, pc, newErr, ret, cancelled, preCancelled, prod, results,
                   emitted, storage, dd, send, remainingSize, sink, sinkBytes, cbVars, niVars, defaultConfig>>

\* what the call that ends leaves behind for the next one
Finished == [call |-> api.call, emitted |-> emitted, written |-> Len(sink), count |-> m.payloadCount]

\* the start of a call of ExecuteWithWriter or DryRun: a new sink, and nothing
\* of the goroutines of the call before
NewCall(call) ==
    /\ Callable
    /\ api.runs < MaxCalls
    /\ api' = [api EXCEPT !.runs = @ + 1, !.call = call, !.prev = Finished]
    /\ emitted' = <<>> /\ storage' = {} /\ dd' = [pc |-> "idle", left |-> {}]
    /\ send' = OpenChannel /\ sink' = <<>> /\ sinkBytes' = 0
    /\ UNCHANGED <<given, opts, newErr, cancelled, preCancelled, cbVars, niVars, defaultConfig>>

\* resChan := m.Execute(ctx), after payloadCount was set to reset
ExecuteStarts(reset) ==
    /\ results' = OpenChannel
    /\ prod' = [pc |-> "input", i |-> 1, j |-> 1, pending |-> <<>>]
    /\ ret' = "pending"
    /\ IF opts.DedupeResults
       THEN /\ pc' = "drain"
            /\ m' = [m EXCEPT !.payloadCount = reset,
                              !.maxkeyLenInBytes =
                                  EstimateCount(m.Inputs, opts, m.maxkeyLenInBytes).maxkeyLenInBytes]
            /\ remainingSize' = 0
       ELSE /\ pc' = "consume"
            /\ m' = [m EXCEPT !.payloadCount = ResetCount(@)]
            /\ remainingSize' = opts.MaxSize

\* a bug: the writer is not checked
WriterIsNil_Never(writer) == FALSE

\* if writer == nil
WriterIsNil(writer) == writer = "nil"

\* m.ExecuteWithWriter(context.Background(), writer), up to its loop
ExecuteWithWriter ==
    \E writer \in {"nil", "buffer"} :
        /\ NewCall(IF writer = "nil" THEN "ExecuteWithWriter(nil)" ELSE "ExecuteWithWriter")
        /\ IF WriterIsNil(writer)
           THEN /\ ret' = "writer destination cannot be nil"
                /\ pc' = "returned"
                /\ prod' = IdleProducer /\ results' = OpenChannel
                /\ UNCHANGED <<m, remainingSize>>
           ELSE ExecuteStarts(m.payloadCount)

\* m.DryRun(), up to the loop of ExecuteWithWriter
DryRun ==
    /\ NewCall("DryRun")
    /\ ExecuteStarts(0)

NextAPI ==
    \/ CallNew
    \/ SetDedupeResults
    \/ CallEstimateCount
    \/ CallPayloadCount
    \/ ExecuteWithWriter
    \/ DryRun
    \/ ProdInput
    \/ ProdPattern
    \/ ProdSend
    \/ DrainReceive
    \/ DrainEnd
    \/ DedupeSend
    \/ DedupeClose
    \/ ConsumeClosed
    \/ ConsumeSkip
    \/ ConsumeWrite

SpecAPI == InitAPI /\ [][NextAPI]_vars

\* the same caller, on the options of CountChoices
InitCount ==
    /\ given \in CountChoices
    /\ opts = given
    /\ pc = "start"
    /\ RunIdle
    /\ api = NoCalls
    /\ cbIn = NoCall /\ cbOut = NoOutcome
    /\ niIn = NoURL /\ niOut = NoDecomposition /\ gmOut = <<>>

SpecCount == InitCount /\ [][NextAPI]_vars

(***************************************************************************)
(* A run under a scheduler that lets every goroutine that can take a step  *)
(* take one eventually: the producer, the goroutine of GetResults and the  *)
(* caller inside Execute and the loop of ExecuteWithWriter. The context    *)
(* may be cancelled and the sink may fail, or not.                         *)
(***************************************************************************)
InitFair ==
    /\ given \in FairChoices
    /\ opts = given
    /\ pc = "start"
    /\ RunIdle
    /\ api = NoCalls
    /\ cbIn = NoCall /\ cbOut = NoOutcome
    /\ niIn = NoURL /\ niOut = NoDecomposition /\ gmOut = <<>>

\* the goroutine Execute starts
Producer == ProdInput \/ ProdPattern \/ ProdSend \/ ProdSendCancelled

\* the goroutine GetResults starts
DedupeStage == DedupeSend \/ DedupeClose

\* the caller's goroutine, from Drain to the return of ExecuteWithWriter
RunLoop ==
    \/ DrainReceive \/ DrainEnd
    \/ ConsumeCancelled \/ ConsumeClosed \/ ConsumeSkip \/ ConsumeWrite \/ ConsumeWriteFails

SpecFair ==
    /\ InitFair /\ [][Next]_vars
    /\ WF_vars(Producer) /\ WF_vars(DedupeStage) /\ WF_vars(RunLoop)

(***************************************************************************)
(* The same runs for a caller that may turn DedupeResults off on the       *)
(* Options it shares with the Mutator, after New and before the run: the   *)
(* loop of ExecuteWithWriter then reads the channel of the producer.       *)
(***************************************************************************)
NextNoDedupe == Next \/ SetDedupeResults

SpecNoDedupe ==
    /\ InitFair /\ [][NextNoDedupe]_vars
    /\ WF_vars(Producer) /\ WF_vars(DedupeStage) /\ WF_vars(RunLoop)

(***************************************************************************)
(* One process that constructs Mutators one after another: each New reads  *)
(* the package variable DefaultConfig as the calls before it left it.      *)
(***************************************************************************)
\* "y.x.b.uk": the subdomain y and one more label, x
domYXB == <<"y", ".", "x", ".", "b", ".", "u", "k">>
\* "api1.b.uk": a subdomain of letters and a digit
domApi1 == <<"a", "p", "i", "1", ".", "b", ".", "u", "k">>

\* the domain lists of these calls: no subdomain, one, a digit in it, and a
\* domain of two labels that is followed by another domain
NewDomains == {<<domA>>, <<domXB>>, <<domApi1>>, <<domYXB, domXB>>}

\* the payloads of these calls: none (New falls back to DefaultConfig), a
\* word, a word and a number, a number only
NewPayloads ==
    { <<>>,
      [k \in {keyWord} |-> << <<"v">> >>],
      [k \in {keyWord, keyNumber} |-> IF k = keyWord THEN << <<"v">> >> ELSE << <<"2">> >>],
      [k \in {keyNumber} |-> << <<"2">> >>] }

NewChoices ==
    {[Scenario(d, <<patWordRoot>>, p, 0) EXCEPT !.Enrich = e] :
        d \in NewDomains, p \in NewPayloads, e \in BOOLEAN}

InitNew ==
    /\ given \in NewChoices
    /\ opts = given
    /\ pc = "start"
    /\ RunIdle
    /\ api = NoCalls
    /\ cbIn = NoCall /\ cbOut = NoOutcome
    /\ niIn = NoURL /\ niOut = NoDecomposition /\ gmOut = <<>>

\* the caller fills in the Options of the next Mutator of the process
AnotherOptions ==
    /\ pc \in {"ready", "failed"}
    /\ \E o \in NewChoices : given' = o /\ opts' = o
    /\ pc' = "start"
    /\ m' = NoMutator
    /\ newErr' = ""
    /\ UNCHANGED <<ret, cancelled, preCancelled, prod, results, emitted, storage, dd, send,
                   remainingSize, sink, sinkBytes, asideVars>>

NextNew == CallNew \/ AnotherOptions

SpecNew == InitNew /\ [][NextNew]_vars

(***************************************************************************)
(* Properties of ClusterBomb, under SpecCB.                                *)
(***************************************************************************)
RECURSIVE ProductOver(_, _)
\* |P1| * ... * |Pn| for the value sequences of the keys K
ProductOver(values, K) ==
    IF K = {} THEN 1
    ELSE LET k == CHOOSE q \in K : TRUE
         IN  Len(values[k]) * ProductOver(values, K \ {k})

cbProduct == ProductOver(cbIn.values, DOMAIN cbIn.values)

\* n >= 1 and every value sequence is non-empty
cbAllNonEmpty == DOMAIN cbIn.values # {} /\ \A k \in DOMAIN cbIn.values : cbIn.values[k] # <<>>

\* C7: over non-empty value sequences P1..Pn (n >= 1), a callback that never
\* answers false is invoked |P1|*...*|Pn| times and ClusterBomb returns true;
\* a callback that answers false on its k-th invocation is invoked exactly k
\* times and ClusterBomb returns false.
C7_ClusterBombCount ==
    cbOut.done /\ cbAllNonEmpty =>
        IF cbIn.stop \in 1..cbProduct
        THEN Len(cbOut.calls) = cbIn.stop /\ ~cbOut.ok
        ELSE Len(cbOut.calls) = cbProduct /\ cbOut.ok

\* an early stop inside a run over three keys, before the last tuple
C7_Witness ==
    /\ cbOut.done /\ cbAllNonEmpty
    /\ Cardinality(DOMAIN cbIn.values) = 3
    /\ cbIn.stop = 3 /\ cbProduct > 4
    /\ Len(cbOut.calls) = 3 /\ ~cbOut.ok

\* C8: over an empty variable set, or a variable set with a zero-length value
\* sequence at any key position, the callback is never invoked and
\* ClusterBomb returns true.
C8_ClusterBombVacuous ==
    cbOut.done /\ ~cbAllNonEmpty => cbOut.calls = <<>> /\ cbOut.ok

\* the empty sequence is at the last of three positions, after non-empty ones
C8_Witness ==
    /\ cbOut.done
    /\ Cardinality(DOMAIN cbIn.values) = 3
    /\ cbIn.values[cbIn.indexes[1]] # <<>> /\ cbIn.values[cbIn.indexes[2]] # <<>>
    /\ cbIn.values[cbIn.indexes[3]] = <<>>
    /\ cbOut.calls = <<>> /\ cbOut.ok

(***************************************************************************)
(* Properties of a run, under Spec.                                        *)
(***************************************************************************)
\* the run has ended with a result of the loop of ExecuteWithWriter
Returned == pc = "returned" /\ ret # "writer destination cannot be nil"

\* the line begins with '-'
Hyphenated(line) == line # <<>> /\ line[1] = "-"

\* C1: one domain, one payload word, two identical patterns: a run that ends
\* with success has written exactly 1 line when the caller passed
\* DedupeResults = true and exactly 2 lines when the caller passed false.
C1_DedupOptionHonoured ==
    /\ Len(given.Domains) = 1
    /\ Len(given.Patterns) = 2 /\ given.Patterns[1] = given.Patterns[2]
    /\ DOMAIN given.Payloads = {keyWord} /\ Len(given.Payloads[keyWord]) = 1
    /\ given.Limit = 0 /\ given.MaxSize = 0
    /\ Returned /\ ret = "nil"
    => Len(sink) = IF given.DedupeResults THEN 1 ELSE 2

\* C2 as stated: for every MaxSize B the bytes written never exceed B.
C2_BytesAtMostMaxSize == sinkBytes <= opts.MaxSize

\* C2, amended: for every MaxSize B > 0 the bytes written to the sink (each
\* result plus its line terminator) never exceed B, at every point of a run;
\* MaxSize = 0 sets no budget.
C2_BytesWithinBudget == opts.MaxSize > 0 => sinkBytes <= opts.MaxSize

\* a run under a budget has ended after it wrote a line and refused another
C2_Witness ==
    /\ opts.MaxSize > 0 /\ Returned /\ ret = "nil"
    /\ sink # <<>> /\ sinkBytes < opts.MaxSize /\ remainingSize = 0
    /\ \E e \in Range(emitted) : ~Hyphenated(e) /\ e \notin Range(sink)

\* C3: with Limit = L > 0 the number of lines written, and the written
\* counter, are at most L at every point of a run.
C3_LinesWithinLimit ==
    opts.Limit > 0 => Len(sink) <= opts.Limit /\ m.payloadCount <= opts.Limit

\* a run has ended with Limit lines written and a further valid result skipped
C3_Witness ==
    /\ opts.Limit > 0 /\ Returned /\ ret = "nil"
    /\ Len(sink) = opts.Limit /\ m.payloadCount = opts.Limit
    /\ \E e \in Range(emitted) : ~Hyphenated(e) /\ e \notin Range(sink)

\* C4: ExecuteWithWriter called with a context that is already cancelled
\* returns the cancellation error, never nil, and writes no line.
C4_PreCancelledReturnsCanceled ==
    preCancelled /\ Returned => ret = "context canceled" /\ sink = <<>>

\* C5: when the context is cancelled while ExecuteWithWriter is running, it
\* returns the cancellation error and never success (a failing sink aside).
C5_CancelledNeverSucceeds ==
    cancelled /\ ~preCancelled /\ Returned /\ ret # "failed to write output"
    => ret = "context canceled"

\* C6: no line written begins with '-', and a run that ends with success
\* under no limit and no budget has written every result that does not begin
\* with '-', whatever was skipped before it.
C6_NoHyphenLine ==
    /\ \A i \in DOMAIN sink : ~Hyphenated(sink[i])
    /\ Returned /\ ret = "nil" /\ opts.Limit = 0 /\ opts.MaxSize = 0
       => \A e \in Range(emitted) : ~Hyphenated(e) => e \in Range(sink)

\* a hyphenated result was generated and skipped, and a valid result of the
\* same pattern, generated after it, was written
C6_Witness ==
    /\ Returned /\ ret = "nil"
    /\ \E i, j \in DOMAIN emitted :
          i < j /\ Hyphenated(emitted[i]) /\ ~Hyphenated(emitted[j]) /\ emitted[j] \in Range(sink)

\* the patterns of the pool that are malformed
MalformedPool == {p \in PatternPool : ~TemplateValid(p)}

\* the domains of the pool that decompose, and their decompositions
DecomposablePool == {d \in DomainPool : NewInput(d).ok}

InputOf == [d \in DecomposablePool |-> NewInput(d).input]

\* some pattern the caller passed is malformed
SomePatternMalformed == \E i \in DOMAIN given.Patterns : given.Patterns[i] \in MalformedPool

\* the decompositions of the domains that decompose, in input order
SurvivorsOf(domains) ==
    LET kept == SelectSeq(domains, LAMBDA d : d \in DecomposablePool)
    IN  [i \in DOMAIN kept |-> InputOf[kept[i]]]

\* no run was started: no producer, no result, nothing written
NothingStarted ==
    /\ prod = IdleProducer /\ emitted = <<>> /\ ret = "pending"
    /\ sink = <<>> /\ sinkBytes = 0

\* C9: New returns an error and no Mutator when the domain list is empty,
\* when a pattern is malformed or when every domain fails decomposition, and
\* then no run can be started.
C9_NewFails ==
    /\ pc # "start"
    /\ \/ given.Domains = <<>>
       \/ SomePatternMalformed
       \/ \A i \in DOMAIN given.Domains : given.Domains[i] \notin DecomposablePool
    => /\ pc = "failed" /\ newErr # "" /\ m = NoMutator
       /\ NothingStarted
       /\ ~ENABLED Next

\* New has failed because no domain of a non-empty list decomposes
C9_Witness ==
    /\ pc = "failed" /\ given.Domains # <<>> /\ ~SomePatternMalformed
    /\ newErr = "all input domains failed to parse"

\* some domain the caller passed decomposes and some does not
SomeDomainsFail ==
    /\ \E i \in DOMAIN given.Domains : given.Domains[i] \in DecomposablePool
    /\ \E i \in DOMAIN given.Domains : given.Domains[i] \notin DecomposablePool

\* the results a well-formed pattern of the pool generates for a domain that
\* decomposes, under each choice of payloads: the pattern with the variables
\* of the domain and one word substituted
ResultsFor ==
    [d \in DecomposablePool, p \in PatternPool \ MalformedPool, w \in PayloadChoices |->
        { Replace(Replace(p, GetMap(InputOf[d])), [k \in {keyWord} |-> word])
          : word \in Range(w[keyWord]) }]

\* the patterns of a run: the caller's, or the default ones when none is passed
PatternsUsed ==
    Range(IF given.Patterns = <<>> THEN DefaultConfig.Patterns ELSE given.Patterns)

\* the result is one the run's patterns and payloads generate for the domain
ResultOf(result, d) ==
    \E p \in PatternsUsed : result \in ResultsFor[d, p, given.Payloads]

NormalizedHost == TrimPrefix(niIn.host, Star \o Dot)

Decomposed == niOut.done /\ niOut.ok

\* C19: for every hostname that NewInput decomposes, Sub + "." + Suffix is the
\* hostname when Sub is non-empty, and Suffix is Root when Sub is empty.
C19_SubSuffixRebuildHost ==
    Decomposed =>
        /\ niOut.input.Sub # <<>> =>
               niOut.input.Sub \o Dot \o niOut.input.Suffix = NormalizedHost
        /\ niOut.input.Sub = <<>> => niOut.input.Suffix = niOut.input.Root

\* a hostname with a wildcard and two labels before its root was decomposed
C19_Witness ==
    /\ Decomposed
    /\ niOut.input.Sub # <<>>
    /\ niOut.input.MultiLevel # <<>>
    /\ niIn.host # NormalizedHost

IsPublicSuffix(name) == name # <<>> /\ PublicSuffix(name) = name

Refused == niOut.done /\ ~niOut.ok /\ niOut.input = NoInput

\* C20: NewInput returns an error and no Input for an empty hostname, for a
\* hostname that is a public suffix, and for a hostname that has a wildcard
\* left after one leading "*." was removed; the Root of a returned Input is
\* never a public suffix.
C20_RefusedHostnames ==
    niOut.done =>
        /\ niIn.host = <<>> => Refused
        /\ IsPublicSuffix(NormalizedHost) => Refused
        /\ Contains(NormalizedHost, Star) => Refused
        /\ niOut.ok => ~IsPublicSuffix(niOut.input.Root)

\* a URL whose hostname is a public suffix of two labels was refused
C20_Witness ==
    /\ Refused
    /\ IsPublicSuffix(NormalizedHost)
    /\ Contains(NormalizedHost, Dot)
    /\ niIn.url # niIn.host

(***************************************************************************)
(* Properties of a run whose sink fails, under Spec.                       *)
(***************************************************************************)
RECURSIVE BytesOf(_)
\* the bytes of the lines of a sequence of results
BytesOf(lines) ==
    IF lines = <<>> THEN 0 ELSE Len(outputDataOf(Head(lines))) + BytesOf(Tail(lines))

WriteFailed == ret = "failed to write output"

\* C12: once the sink has failed a write, ExecuteWithWriter has returned the
\* write error (not the cancellation error), no write can follow in the run,
\* and the counter is the number of lines the sink accepted.
C12_WriteErrorReturnsAtOnce ==
    WriteFailed =>
        /\ pc = "returned"
        /\ ~ENABLED ConsumeWrite /\ ~ENABLED ConsumeWriteFails /\ ~ENABLED ConsumeCancelled
        /\ m.payloadCount = Len(sink)

\* the sink failed on a later write, after it took a part of the line, while
\* the context was cancelled
C12_Witness ==
    /\ WriteFailed
    /\ pc = "returned"
    /\ sink # <<>>
    /\ sinkBytes > BytesOf(sink)
    /\ cancelled

(***************************************************************************)
(* Properties of the dedup stage, under Spec.                              *)
(***************************************************************************)
NoRepeat(q) == \A i, j \in DOMAIN q : q[i] = q[j] => i = j

RECURSIVE IsSubsequence(_, _)
\* the elements of q appear in r in the order of q
IsSubsequence(q, r) ==
    IF q = <<>> THEN TRUE
    ELSE IF r = <<>> THEN FALSE
    ELSE IF Head(q) = Head(r) THEN IsSubsequence(Tail(q), Tail(r))
    ELSE IsSubsequence(q, Tail(r))

\* C17: with deduplication, no string is written twice in a run and the
\* written strings are in the order in which the producer first generated
\* them.
C17_DedupFirstSeenOrder ==
    opts.DedupeResults => NoRepeat(sink) /\ IsSubsequence(sink, Dedupe(emitted))

(***************************************************************************)
(* Properties of the calls on one Mutator, under SpecAPI.                  *)
(***************************************************************************)
\* C11: ExecuteWithWriter with a nil writer returns its error at once: no
\* producer is started, no result is generated or written, and the counter
\* of written results is what it was before the call.
C11_NilWriterRefused ==
    api.call = "ExecuteWithWriter(nil)" =>
        /\ pc = "returned"
        /\ ret = "writer destination cannot be nil"
        /\ prod = IdleProducer
        /\ results = OpenChannel
        /\ emitted = <<>> /\ sink = <<>>
        /\ m.payloadCount = api.prev.count

\* the nil writer was passed after a run that had written results
C11_Witness ==
    /\ api.call = "ExecuteWithWriter(nil)"
    /\ pc = "returned"
    /\ api.prev.count > 0
    /\ api.prev.written > 0

\* the producer goroutine of the run has returned
ProducerDone == prod.pc = "closed"

\* C13: the value EstimateCount returned is at least the number of results
\* the producer of Execute has emitted in a run.
C13_EstimateIsUpperBound == api.est >= 0 => Len(emitted) <= api.est

\* a finished producer emitted results, but fewer than the estimate, because
\* clusterBomb dropped a word
C13_Witness ==
    /\ ProducerDone
    /\ api.est >= 0
    /\ emitted # <<>>
    /\ Len(emitted) < api.est

\* every variable the pattern references is a non-empty field of the
\* decomposed domain or a payload key with a non-empty sequence
Available(input, pattern, payloads) ==
    \A v \in Range(getAllVars(pattern)) :
        \/ v \in DOMAIN GetMap(input)
        \/ v \in DOMAIN payloads /\ payloads[v] # <<>>

RECURSIVE SumOver(_, _)
\* the sum of f over the finite set S
SumOver(f, S) ==
    IF S = {} THEN 0 ELSE LET x == CHOOSE y \in S : TRUE IN f[x] + SumOver(f, S \ {x})

\* the payload variables of a pattern, one for each time it references them
PayloadVarsOf(input, pattern) ==
    SelectSeq(getAllVars(pattern), LAMBDA v : v \notin DOMAIN GetMap(input))

RECURSIVE WordsProduct(_, _)
WordsProduct(payloads, occurrences) ==
    IF occurrences = <<>> THEN 1
    ELSE Len(payloads[Head(occurrences)]) * WordsProduct(payloads, Tail(occurrences))

\* the pairs (domain, pattern) that have all their variables
AvailablePairs(inputs, patterns, payloads) ==
    {pr \in (1..Len(inputs)) \X (1..Len(patterns)) :
        Available(inputs[pr[1]], patterns[pr[2]], payloads)}

\* the estimate when exactly the available pairs are counted, each for the
\* product of the lengths of the payloads it references
ExpectedEstimate(inputs, patterns, payloads) ==
    SumOver([pr \in AvailablePairs(inputs, patterns, payloads) |->
                WordsProduct(payloads, PayloadVarsOf(inputs[pr[1]], patterns[pr[2]]))],
            AvailablePairs(inputs, patterns, payloads))

\* the results of a pair: its statement with every combination of the words
\* that are neither a prefix nor a suffix of its leftmost part
ResultsOfPair(input, pattern, payloads) ==
    LET statement == Replace(pattern, GetMap(input))
        words == payloadSetOf(statement, payloads)
    IN  {Replace(statement, wm) : wm \in {f \in [DOMAIN words -> UNION {Range(words[k]) : k \in DOMAIN words}] :
                                              \A k \in DOMAIN words : f[k] \in Range(words[k])}}

\* the results of exactly the available pairs
ExpectedResults(inputs, patterns, payloads) ==
    UNION {ResultsOfPair(inputs[pr[1]], patterns[pr[2]], payloads)
           : pr \in AvailablePairs(inputs, patterns, payloads)}

\* for each choice of options, whose domains all decompose: the available
\* pairs, the expected estimate and the expected results
ExpectedTable ==
    {[o |-> o,
      pairs |-> AvailablePairs(prepareInputs(o.Domains), o.Patterns, o.Payloads),
      estimate |-> ExpectedEstimate(prepareInputs(o.Domains), o.Patterns, o.Payloads),
      results |-> ExpectedResults(prepareInputs(o.Domains), o.Patterns, o.Payloads)]
     : o \in APIChoices}

Expected == CHOOSE row \in ExpectedTable : row.o = given

\* C14: a pair (domain, pattern) is counted by EstimateCount exactly when the
\* producer expands it. A pair whose pattern references a variable that is
\* neither a non-empty field of the domain nor a payload key with words adds
\* nothing to the estimate and yields no result; the other pairs are counted
\* and expanded as if it were not there.
C14_SkippedInEstimateAndRun ==
    /\ api.est >= 0 => api.est = Expected.estimate
    /\ prod.pc = "send" => <<prod.i, prod.j>> \in Expected.pairs
    /\ ProducerDone => Range(emitted) = Expected.results

\* a producer has finished on domains and patterns of which one pair lacks a
\* variable and the others do not, and the estimate was asked for
C14_Witness ==
    /\ ProducerDone
    /\ api.est > 0
    /\ emitted # <<>>
    /\ Expected.pairs # {}
    /\ Cardinality(Expected.pairs) < Len(m.Inputs) * Len(opts.Patterns)

\* a DryRun and then an ExecuteWithWriter with a real sink have both returned
DryRunThenRun ==
    /\ pc = "returned"
    /\ api.prev.call = "DryRun"
    /\ api.call = "ExecuteWithWriter"

\* C15: the number DryRun returns is the number of lines ExecuteWithWriter
\* writes to a sink that never fails, for the same Mutator and a context that
\* is never cancelled.
C15_DryRunIsWrittenCount == DryRunThenRun => Len(sink) = api.prev.count

\* PayloadCount was called after the last DryRun or ExecuteWithWriter returned
AskedAfterRun ==
    /\ pc = "returned"
    /\ api.call \in {"DryRun", "ExecuteWithWriter"}
    /\ api.pcount.value >= 0
    /\ api.pcount.runs = api.runs

\* C16: PayloadCount returns what EstimateCount returns before any run, and
\* after a run the number of results the run wrote, also when it wrote none.
C16_PayloadCountIsWritten ==
    /\ api.pcount.value >= 0 /\ api.pcount.runs = 0 /\ api.est >= 0 => api.pcount.value = api.est
    /\ AskedAfterRun => api.pcount.value = Len(sink)

\* two runs on the same Mutator, without the dedup stage, have both returned
TwoRunsWithoutDedupe ==
    /\ ~opts.DedupeResults
    /\ pc = "returned"
    /\ api.prev.call \in {"DryRun", "ExecuteWithWriter"}
    /\ api.call \in {"DryRun", "ExecuteWithWriter"}

\* C18: without the dedup stage, every run on the same Mutator emits the same
\* sequence of results, also for patterns with two or more payload variables.
C18_SameSequenceEveryRun == TwoRunsWithoutDedupe => emitted = api.prev.emitted

\* the hostname after its leading "*.", and the argument written with it
\* the way niIn.url is written with niIn.host
HostAfterStar == SubSeq(niIn.host, 3, Len(niIn.host))

URLAfterStar ==
    IF niIn.url = niIn.host THEN HostAfterStar ELSE SchemeMarker \o HostAfterStar \o PortPart

WildcardGiven == HasPrefix(niIn.host, Star \o Dot) /\ ~Contains(HostAfterStar, Star)

\* C21: for a hostname h without a wildcard, NewInput of "*." + h returns what
\* NewInput of h returns: the same Input, or an error when h does not
\* decompose.
C21_LeadingWildcardIgnored ==
    niOut.done /\ WildcardGiven =>
        /\ niOut.ok = NewInput(URLAfterStar).ok
        /\ niOut.input = NewInput(URLAfterStar).input

\* "*." before a hostname with a subdomain was decomposed
C21_Witness ==
    /\ niOut.done /\ niOut.ok
    /\ WildcardGiven
    /\ niOut.input.Sub # <<>>

\* "sub<n>", for n below ten
SubKey(n) == <<"s", "u", "b">> \o <<DigitChars[n + 1]>>

\* the value of a key in a map, or "" when the key is absent
ValueIn(map, k) == IF k \in DOMAIN map THEN map[k] ELSE <<>>

\* the map holds exactly the non-empty fields of the Input, under their keys
ProjectsInput(map, i) ==
    /\ ValueIn(map, <<"t", "l", "d">>) = i.TLD
    /\ ValueIn(map, <<"e", "t", "l", "d">>) = i.ETLD
    /\ ValueIn(map, <<"s", "l", "d">>) = i.SLD
    /\ ValueIn(map, <<"r", "o", "o", "t">>) = i.Root
    /\ ValueIn(map, <<"s", "u", "b">>) = i.Sub
    /\ ValueIn(map, <<"s", "u", "f", "f", "i", "x">>) = i.Suffix
    /\ \A n \in 1..Len(i.MultiLevel) : ValueIn(map, SubKey(n)) = i.MultiLevel[n]
    /\ Cardinality(DOMAIN map) <= 6 + Len(i.MultiLevel)

\* C22: a map GetMap returns has no key with an empty value, maps the n-th
\* MultiLevel label to "sub<n>", equals the map of every other call on the
\* same Input, and the Input is what NewInput returned.
C22_GetMapProjection ==
    \A c \in DOMAIN gmOut :
        /\ \A k \in DOMAIN gmOut[c] : gmOut[c][k] # <<>>
        /\ ProjectsInput(gmOut[c], niOut.input)
        /\ gmOut[c] = gmOut[1]
        /\ niOut.input = NewInput(niIn.url).input

\* GetMap was called twice on an Input with an empty field and two
\* MultiLevel labels
C22_Witness ==
    /\ Len(gmOut) = 2
    /\ niOut.input.ETLD = <<>>
    /\ Len(niOut.input.MultiLevel) = 2

(***************************************************************************)
(* Properties of the end of a run, under SpecFair.                         *)
(***************************************************************************)
Running == pc \in {"drain", "consume"}

\* the producer has gone through every domain and returned
Traversed == prod.pc = "closed" /\ prod.i > Len(m.Inputs)

\* C23: a run with a sink ends, with nil after the stream was closed, with
\* the cancellation error or with the write error; when the context is never
\* cancelled and the sink never fails it ends with nil after the producer
\* has gone through every domain and pattern.
C23_RunEnds ==
    /\ [](Returned =>
            /\ ret \in {"nil", "context canceled", "failed to write output"}
            /\ ret = "nil" => resChan.closed /\ resChan.buf = <<>>)
    /\ (Running ~> Returned)
    /\ (Running ~> ((Returned /\ ret = "nil" /\ Traversed) \/ cancelled \/ WriteFailed))

\* an uncancelled run on two domains and two patterns wrote lines and
\* returned nil
C23_Witness ==
    /\ Returned /\ ret = "nil"
    /\ ~cancelled
    /\ Traversed
    /\ Len(m.Inputs) = 2 /\ Len(opts.Patterns) = 2
    /\ sink # <<>>

\* the producer goroutine may still write a field of the Mutator
ProducerMayWrite == prod.pc \in {"input", "pattern", "send"}

\* C24: during a run every field of the Mutator has one writing task. The
\* producer goroutine writes neither the written counter, nor the payloads,
\* nor the decomposed inputs, and the dedupe goroutine writes nothing; the
\* written counter changes only in ExecuteWithWriter, and timeTaken only in
\* the producer; the loop reads timeTaken (when its channel is reported
\* closed) only after the producer has returned.
C24_OneWriterPerField ==
    [][/\ Producer => /\ m'.payloadCount = m.payloadCount
                      /\ m'.maxkeyLenInBytes = m.maxkeyLenInBytes
                      /\ m'.Inputs = m.Inputs
                      /\ opts' = opts
       /\ DedupeStage => m' = m /\ opts' = opts
       /\ (Running /\ m'.payloadCount # m.payloadCount) => ConsumeWrite \/ DrainEnd
       /\ m'.timeTaken # m.timeTaken => Producer
       /\ ConsumeClosed => ~ProducerMayWrite /\ m.timeTaken = Measured]_vars

\* without dedupe the loop has written lines, and counted them, while the
\* producer is still at work and has not measured its time
C24_Witness ==
    /\ pc = "consume"
    /\ ~opts.DedupeResults
    /\ m.payloadCount > 0
    /\ ProducerMayWrite
    /\ m.timeTaken = 0

\* the producer is in the callbacks of an expansion
Expanding == prod.pc = "send"

\* the producer has emitted a part of an expansion, the context is cancelled,
\* and the producer has returned with pairs left
StoppedEarly ==
    /\ cancelled
    /\ prod.pc = "closed" /\ results.closed
    /\ emitted # <<>>
    /\ <<prod.i, prod.j>> # <<Len(m.Inputs) + 1, 1>>

\* C25: once the context is cancelled the producer passes no checkpoint, so
\* it starts no expansion; a result emitted after the cancellation comes from
\* the expansion that was under way, of the same domain and pattern; and the
\* producer then returns and closes its channel.
C25_NoFurtherPairAfterCancel ==
    /\ [][cancelled => /\ Expanding' => Expanding /\ prod'.i = prod.i /\ prod'.j = prod.j
                       /\ emitted' # emitted => Expanding]_vars
    /\ (cancelled /\ ProducerMayWrite) ~> (prod.pc = "closed" /\ results.closed)

C25_Witness == StoppedEarly /\ Len(m.Inputs) * Len(opts.Patterns) > 1

\* a count limit and no byte budget
Limited == opts.Limit > 0 /\ opts.MaxSize = 0

\* the results the channel of Execute delivers in a run
Stream == IF opts.DedupeResults THEN storage ELSE Range(emitted)

\* the results that the validity filter lets through
Valid(S) == {r \in S : ~StartsWithHyphen(r)}

\* the step is a receive of the loop of ExecuteWithWriter
LoopReceives ==
    /\ pc = "consume"
    /\ resChan.buf # <<>>
    /\ resChan'.buf = Tail(resChan.buf)

\* C26: with a count limit L and no byte budget, a result received after L
\* lines were written is skipped and the loop goes on; a result received
\* before that, and not starting with a hyphen, is the next line written (or
\* the write fails), so the lines are the first valid results in the order of
\* the channel; once L lines are written the loop still ends, with nil unless
\* the context is cancelled, after the channel was closed and emptied; and if
\* the channel delivered at least L valid results, exactly L lines are written.
C26_LimitSkips ==
    /\ [][(Limited /\ LoopReceives) =>
             LET value == Head(resChan.buf)
             IN  /\ Len(sink) >= opts.Limit => pc' = "consume" /\ sink' = sink
                 /\ (Len(sink) < opts.Limit /\ ~StartsWithHyphen(value))
                        => (sink' = Append(sink, value) \/ WriteFailed')]_vars
    /\ [](Limited /\ Returned /\ ret = "nil"
             => /\ resChan.closed /\ resChan.buf = <<>>
                /\ Cardinality(Valid(Stream)) >= opts.Limit => Len(sink) = opts.Limit)
    /\ (Limited /\ pc = "consume" /\ Len(sink) >= opts.Limit)
           ~> (Returned /\ (ret = "nil" \/ cancelled))

\* a run with a limit has returned nil: the channel delivered a result that
\* starts with a hyphen and more valid results than the limit, and as many
\* lines as the limit are written
C26_Witness ==
    /\ Limited /\ Returned /\ ret = "nil" /\ ~cancelled
    /\ Valid(Stream) # Stream
    /\ Cardinality(Valid(Stream)) > opts.Limit
    /\ Len(sink) = opts.Limit

\* the loop receives a result that no earlier filter skips, and neither
\* writes it nor fails to: the budget refuses it
BudgetRefuses ==
    /\ LoopReceives
    /\ sink' = sink /\ ~WriteFailed'
    /\ ~StartsWithHyphen(Head(resChan.buf))
    /\ ~(opts.Limit > 0 /\ Len(sink) >= opts.Limit)
    /\ remainingSize > 0

\* C27: with a byte budget, a result is refused by the budget exactly when
\* its bytes and the line terminator exceed what remains; the refusal leaves
\* a budget of zero, and from a budget of zero on the run writes no line and
\* the budget stays zero, whatever the size of the later results.
C27_RefusalExhaustsBudget ==
    [][(opts.MaxSize > 0 /\ pc = "consume") =>
          /\ BudgetRefuses => /\ Len(Head(resChan.buf)) + 1 > remainingSize
                              /\ remainingSize' = 0
                              /\ pc' = "consume"
          /\ (LoopReceives /\ Len(Head(resChan.buf)) + 1 > remainingSize) => sink' = sink
          /\ remainingSize = 0 => sink' = sink /\ remainingSize' = 0]_vars

\* a run with a budget has returned nil and wrote nothing, although the
\* channel delivered a valid result that fits in the whole budget: a longer
\* result was refused before it
C27_Witness ==
    /\ opts.MaxSize > 0
    /\ Returned /\ ret = "nil"
    /\ sink = <<>> /\ remainingSize = 0
    /\ \E r \in Valid(Stream) : Len(r) + 1 <= opts.MaxSize

\* C28: once EstimateCount has run (Execute runs it before the producer
\* starts), m.maxkeyLenInBytes is at least the length in bytes of every result
\* the producer emits, and no step makes it smaller.
C28_MaxLenCoversResults ==
    /\ [](\A n \in DOMAIN emitted : Len(emitted[n]) <= m.maxkeyLenInBytes)
    /\ [][m'.maxkeyLenInBytes >= m.maxkeyLenInBytes]_vars

\* word is a prefix or a suffix of the leftmost label of the statement
Affix(statement, word) ==
    HasPrefix(CutBefore(statement, Dot), word) \/ HasSuffix(CutBefore(statement, Dot), word)

\* the results of the statement that use word for the payload variable v, with
\* any words of the payloads for its other variables
Using(statement, payloads, v, word) ==
    LET vs == Range(getAllVars(statement))
    IN  {Replace(statement, f) :
            f \in {g \in [vs -> UNION {Range(payloads[k]) : k \in vs}] :
                      /\ \A k \in vs : g[k] \in Range(payloads[k])
                      /\ g[v] = word}}

\* every payload variable of the statement has a word that is not an affix
EveryVariableKeepsAWord(statement, payloads) ==
    \A k \in Range(getAllVars(statement)) :
        \E word \in Range(payloads[k]) : ~Affix(statement, word)

\* for the covered pairs of the options: dropped, the results that use a word
\* that is an affix; used, for each other word of each variable the results
\* that use it; usedIfKept, the same for the statements of which every
\* variable keeps a word
UsesOf(o) ==
    LET inputs == prepareInputs(o.Domains)
        statements == {Replace(o.Patterns[pr[2]], GetMap(inputs[pr[1]])) :
                          pr \in AvailablePairs(inputs, o.Patterns, o.Payloads)}
        Sets(sts, affix) ==
            UNION {{Using(st, o.Payloads, v, word) :
                       word \in {w \in Range(o.Payloads[v]) : Affix(st, w) = affix}} :
                   <<st, v>> \in {sv \in sts \X DOMAIN o.Payloads : sv[2] \in Range(getAllVars(sv[1]))}}
    IN  [o |-> o,
         dropped |-> UNION Sets(statements, TRUE),
         used |-> Sets(statements, FALSE),
         usedIfKept |-> Sets({st \in statements : EveryVariableKeepsAWord(st, o.Payloads)}, FALSE)]

UsesTable == {UsesOf(o) : o \in FairChoices}

Uses == CHOOSE row \in UsesTable : row.o = given

\* the producer has returned from the last input of a run that was not cancelled
ExpandedAll == ProducerDone /\ ~cancelled /\ prod.i > Len(m.Inputs)

\* C29 as stated: no emitted result uses, for a payload variable of its
\* statement, a word that is a prefix or a suffix of the statement's leftmost
\* label, and every other word of every such variable is used by a result.
C29_AffixWordsDropped ==
    /\ Range(emitted) \cap Uses.dropped = {}
    /\ ExpandedAll => \A using \in Uses.used : using \cap Range(emitted) # {}

\* C29, amended: no emitted result uses a word that is a prefix or a suffix of
\* the leftmost label; every other word of a variable is used by a result when
\* every payload variable of the statement keeps at least one word, and
\* otherwise the statement gives no result.
C29_AffixWordsDroppedIfKept ==
    /\ Range(emitted) \cap Uses.dropped = {}
    /\ ExpandedAll => \A using \in Uses.usedIfKept : using \cap Range(emitted) # {}
    /\ \A using \in Uses.used \ Uses.usedIfKept : using \cap Range(emitted) = {}

\* the producer has expanded every pair; a word was dropped and another word
\* of the same run was used
C29_Witness ==
    /\ ExpandedAll
    /\ Uses.dropped # {}
    /\ Uses.usedIfKept # {}
    /\ emitted # <<>>

\* the payload variables a pattern references: its variables that are keys of
\* the payloads
PayloadVariables(pattern, payloads) ==
    SelectSeq(getAllVars(pattern), LAMBDA v : v \in DOMAIN payloads)

\* for the options: plain, every pattern is covered for every domain, no
\* pattern references a payload variable twice and no word is a prefix or a
\* suffix of the leftmost label of a statement; count, for each domain and
\* each pattern the product of the numbers of words of the payload variables
\* of the pattern, which is 1 for a pattern without payload variable
CountOf(o) ==
    LET inputs == prepareInputs(o.Domains)
        pairs == (1..Len(inputs)) \X (1..Len(o.Patterns))
        StatementOf(pr) == Replace(o.Patterns[pr[2]], GetMap(inputs[pr[1]]))
        PerPattern(j) ==
            ProductOver(o.Payloads, Range(PayloadVariables(o.Patterns[j], o.Payloads)))
    IN  [o |-> o,
         plain |-> /\ Len(inputs) = Len(o.Domains)
                   /\ AvailablePairs(inputs, o.Patterns, o.Payloads) = pairs
                   /\ \A j \in DOMAIN o.Patterns :
                         LET pv == PayloadVariables(o.Patterns[j], o.Payloads)
                         IN  Cardinality(Range(pv)) = Len(pv)
                   /\ \A pr \in pairs : \A v \in Range(getAllVars(StatementOf(pr))) :
                         \A word \in Range(o.Payloads[v]) : ~Affix(StatementOf(pr), word),
         count |-> Len(inputs) * SumOver([j \in DOMAIN o.Patterns |-> PerPattern(j)], DOMAIN o.Patterns),
         bare |-> {j \in DOMAIN o.Patterns : PayloadVariables(o.Patterns[j], o.Payloads) = <<>>}]

CountTable == {CountOf(o) : o \in CountChoices}

Count == CHOOSE row \in CountTable : row.o = given

\* C30: when every pattern is covered for every domain, no pattern references
\* a payload variable twice and no word is a prefix or a suffix of the
\* leftmost label of a statement, the value EstimateCount returns and the
\* number of results the producer emits in a run are both the sum, over the
\* domains and the patterns, of the product of the numbers of words of the
\* pattern's payload variables: |values| for a pattern with one payload
\* variable and 1 for a pattern with none.
C30_EstimateIsEmittedCount ==
    Count.plain => /\ api.est >= 0 => api.est = Count.count
                   /\ ProducerDone => Len(emitted) = Count.count

\* the estimate was asked for and a producer has finished, for a pattern with
\* one payload variable and a pattern with none
C30_Witness ==
    /\ Count.plain
    /\ Count.bare # {} /\ Count.bare # DOMAIN given.Patterns
    /\ api.est = Count.count
    /\ ProducerDone
    /\ Len(emitted) = api.est

(***************************************************************************)
(* The tuples ClusterBomb passes to its callback, under SpecCB.            *)
(***************************************************************************)
\* the callback never answers false during the run
AlwaysContinues == cbIn.stop \notin 1..cbProduct

\* the cross product: one value of its sequence for every key
CrossProduct == {t \in [DOMAIN cbIn.values -> Range(cbWords)] :
                    \A k \in DOMAIN t : t[k] \in Range(cbIn.values[k])}

\* the key of the final variable: payloads.KeyAtNth(payloads.Cap()-1)
FinalKey == cbIn.indexes[Len(cbIn.indexes)]

\* the calls i and i+1 are consecutive iterations of one loop at the final
\* variable: call i+1 does not start the final variable's sequence again
SameFinalLoop(i) == cbOut.calls[i + 1][FinalKey] # cbIn.values[FinalKey][1]

\* C31: in a ClusterBomb run over non-empty value sequences with an
\* always-continue callback, every tuple of the cross product is passed to
\* the callback exactly once, every tuple passed holds one value for each of
\* the N keys, and between consecutive calls at the final variable the values
\* of the previously chosen variables are unchanged.
C31_EveryTupleOnce ==
    cbOut.done /\ cbAllNonEmpty /\ AlwaysContinues =>
        /\ \A t \in CrossProduct :
              Cardinality({i \in DOMAIN cbOut.calls : cbOut.calls[i] = t}) = 1
        /\ \A i \in DOMAIN cbOut.calls :
              /\ DOMAIN cbOut.calls[i] = DOMAIN cbIn.values
              /\ cbOut.calls[i] \in CrossProduct
        /\ \A i \in 1..(Len(cbOut.calls) - 1) :
              SameFinalLoop(i) =>
                  \A k \in DOMAIN cbIn.values \ {FinalKey} :
                      cbOut.calls[i + 1][k] = cbOut.calls[i][k]

\* three keys of two values each: eight tuples, four loops at the final variable
C31_Witness ==
    /\ cbOut.done /\ cbAllNonEmpty /\ AlwaysContinues
    /\ Cardinality(DOMAIN cbIn.values) = 3
    /\ \A k \in DOMAIN cbIn.values : Len(cbIn.values[k]) = 2
    /\ Len(cbOut.calls) = 8
    /\ SameFinalLoop(1) /\ ~SameFinalLoop(2)
    /\ cbOut.calls[1][FinalKey] # cbOut.calls[2][FinalKey]

(***************************************************************************)
(* Enrichment and the default payloads, under SpecNew.                     *)
(***************************************************************************)
\* the labels enrichment scans: Sub and the MultiLevel labels of an input
LabelsOf(input) == {input.Sub} \cup Range(input.MultiLevel)

\* the tokens of one label: the matches of [class]{min,} in it
TokensOf(label, class, min) == Range(FindAllRuns(label, class, min, 1))

\* the payloads New starts from: the caller's, or DefaultConfig's for a
\* caller that gave none
HeldBefore == IF DOMAIN given.Payloads = {} THEN defaultConfig.Payloads ELSE given.Payloads

\* the step of a New with Enrich set that returns a Mutator
Enriches == pc = "start" /\ pc' = "ready" /\ given.Enrich

\* C32: after New with Enrich set, the "word" payload slot contains every
\* alphanumeric token and every alphabetic token of three or more letters
\* extracted from the input domains' labels together with every value it held
\* before, the "number" slot contains every extracted digit run together with
\* every value it held before, and neither slot contains a duplicate.
C32_EnrichMerges ==
    [][Enriches =>
        LET word == PayloadsOf(opts'.Payloads, keyWord)
            number == PayloadsOf(opts'.Payloads, keyNumber)
        IN  /\ \A input \in Range(m'.Inputs) : \A label \in LabelsOf(input) :
                  /\ TokensOf(label, Letters \cup Digits, 1) \subseteq Range(word)
                  /\ TokensOf(label, Letters, 3) \subseteq Range(word)
                  /\ TokensOf(label, Digits, 1) \subseteq Range(number)
            /\ Range(PayloadsOf(HeldBefore, keyWord)) \subseteq Range(word)
            /\ Range(PayloadsOf(HeldBefore, keyNumber)) \subseteq Range(number)
            /\ NoRepeat(word) /\ NoRepeat(number)]_vars

(***************************************************************************)
(* The fields NewInput derives from the public suffix, under SpecWritten.  *)
(***************************************************************************)
\* C33: for every successfully decomposed hostname with public suffix s: if s
\* has more than one label then ETLD = s and TLD is the rightmost label of s,
\* otherwise TLD = s and ETLD is empty; in both cases SLD + "." + s equals
\* Root; and the result is the same whether the input is given bare, with a
\* scheme, with a port, or with a path.
C33_SuffixFields ==
    LET s == PublicSuffix(NormalizedHost)
        input == niOut.input
    IN  /\ Decomposed =>
            /\ IF Contains(s, Dot)
               THEN /\ input.ETLD = s
                    /\ ~Contains(input.TLD, Dot) /\ HasSuffix(s, Dot \o input.TLD)
               ELSE input.TLD = s /\ input.ETLD = <<>>
            /\ input.SLD \o Dot \o s = input.Root
        /\ niOut.done =>
            NewInput(niIn.host) = [ok |-> niOut.ok, input |-> input]

\* a hostname under the two-label suffix "co.uk", given with a scheme, a port
\* and a path, was decomposed
C33_Witness ==
    /\ Decomposed
    /\ niIn.url = SchemeMarker \o niIn.host \o PortPart \o PathPart
    /\ PublicSuffix(NormalizedHost) = <<"c", "o", ".", "u", "k">>
    /\ niOut.input.ETLD = <<"c", "o", ".", "u", "k">> /\ niOut.input.TLD = <<"u", "k">>
    /\ niOut.input.SLD = <<"a">> /\ niOut.input.Sub = <<"x">>

\* the tokens the New step has added to the slot of key
AddedTo(key) ==
    Range(PayloadsOf(opts'.Payloads, key)) \ Range(PayloadsOf(HeldBefore, key))

\* C34: every token that enrichment adds to the "word" or "number" payload
\* slot is a substring of a single label (Sub or one MultiLevel label) of a
\* single input domain; no added token spans two labels or two domains.
C34_TokensWithinOneLabel ==
    [][Enriches =>
        \A token \in AddedTo(keyWord) \cup AddedTo(keyNumber) :
            \E input \in Range(m'.Inputs) : \E label \in LabelsOf(input) :
                Contains(label, token)]_vars

\* New has returned a Mutator to a caller that gave no payloads
FellBack == pc = "ready" /\ DOMAIN given.Payloads = {}

\* C35: constructing a Mutator never changes the built-in default payload
\* set: for any sequence of New calls (with or without supplied payloads,
\* with or without Enrich), the payloads used by a later Mutator that falls
\* back to the defaults are the same as if the earlier Mutators had never
\* been constructed.
C35_DefaultsUntouched ==
    /\ defaultConfig.Payloads = DefaultConfig.Payloads
    /\ FellBack => opts.Payloads = New(given, DefaultConfig).opts.Payloads

(***************************************************************************)
(* The counters of the loop of ExecuteWithWriter, under SpecAPI.           *)
(***************************************************************************)
\* ExecuteWithWriter was called with a writer and has not returned
InRun == pc \in {"drain", "consume"}

\* the loop of ExecuteWithWriter has been reached, in a call that has or has
\* not yet returned
LoopReached == pc = "consume" \/ (pc = "returned" /\ api.call # "ExecuteWithWriter(nil)")

\* the byte budget, where there is one: not negative, and with the bytes of
\* the lines written within MaxSize
BudgetKept ==
    opts.MaxSize > 0 =>
        remainingSize >= 0 /\ remainingSize + BytesOf(sink) <= opts.MaxSize

\* C36: at every point of an ExecuteWithWriter run, the written counter
\* equals the number of successful sink writes made so far in that run (it is
\* reset at the start of each run, so counts of earlier runs on the same
\* Mutator never carry over), and with MaxSize > 0 the remaining budget is
\* never negative and remaining budget plus bytes written never exceeds
\* MaxSize.
C36_CounterIsWrites ==
    /\ InRun => m.payloadCount = Len(sink)
    /\ pc = "consume" => BudgetKept

\* C36 as the code has it: from the moment the loop of ExecuteWithWriter is
\* reached, which is after Execute has returned, the written counter equals
\* the number of successful sink writes of the run and the budget is kept.
C36_CounterIsWritesInLoop ==
    LoopReached => m.payloadCount = Len(sink) /\ BudgetKept

\* the second run on a Mutator has written one line that used up its budget,
\* after a first run that wrote one line too
C36_Witness ==
    /\ api.runs = 2 /\ pc = "consume"
    /\ api.prev.count = 1 /\ api.prev.written = 1
    /\ opts.MaxSize > 0 /\ remainingSize = 0
    /\ Len(sink) = 1 /\ m.payloadCount = 1

(***************************************************************************)
(* The results that start with a hyphen, under SpecFair.                   *)
(***************************************************************************)
\* C37: consuming a result that begins with '-' leaves the written counter,
\* the remaining byte budget and the sink unchanged, even when that result is
\* larger than the remaining budget (it does not clamp the budget to zero).
C37_HyphenSkipLeavesState ==
    [][(LoopReceives /\ Hyphenated(Head(resChan.buf))) =>
          /\ m'.payloadCount = m.payloadCount
          /\ remainingSize' = remainingSize
          /\ sink' = sink /\ sinkBytes' = sinkBytes]_vars

\* a run has returned nil after it received a result with a leading hyphen
\* that is larger than the whole budget: a line is written and part of the
\* budget is left
C37_Witness ==
    /\ opts.MaxSize > 0
    /\ Returned /\ ret = "nil" /\ ~cancelled
    /\ \E r \in Stream : Hyphenated(r) /\ Len(r) + 1 > opts.MaxSize
    /\ sink # <<>> /\ m.payloadCount = Len(sink)
    /\ remainingSize > 0

(***************************************************************************)
(* The placeholders of the results, under SpecFair.                        *)
(***************************************************************************)
\* r holds an opening marker with a closing marker after it
HasPlaceholder(r) ==
    \E i \in 1..(Len(r) - 1) :
        /\ SubSeq(r, i, i + 1) = ParenthesisOpen
        /\ \E j \in (i + 2)..(Len(r) - 1) : SubSeq(r, j, j + 1) = ParenthesisClose

\* the producer has passed over a pattern for an input that lacks one of its
\* variables
SomePairSkipped ==
    \E i \in DOMAIN m.Inputs : \E j \in DOMAIN opts.Patterns :
        /\ ~checkMissing(opts.Patterns[j], getSampleMap(GetMap(m.Inputs[i]), opts.Payloads))
        /\ prod.pc = "closed" \/ i < prod.i

ProducerEnded == prod.pc \in {IdleProducer.pc, "closed"}

\* the goroutine of GetResults was never started or has returned
DedupeEnded == dd.pc \in {"idle", "closed"}

\* C39: after ExecuteWithWriter has returned for any reason (completion,
\* cancellation, or sink write error), every task started by the run
\* eventually terminates: no producer or dedup task stays blocked forever on
\* a send to a stream that nobody reads.
C39_TasksEnd == Returned ~> (ProducerEnded /\ DedupeEnded)
====
